---- MODULE Spec2Model ----
(***************************************************************************)
(* Authentication and authorization engine of the team image API.         *)
(*                                                                         *)
(* Python strings are TLA+ strings; a list is a sequence; a dict is a     *)
(* function whose DOMAIN is its key set; None is the value None below.    *)
(* A MongoDB collection is the sequence of its documents in insertion     *)
(* order.                                                                  *)
(*                                                                         *)
(* The application runs its request handlers as coroutines of one event   *)
(* loop: a call runs without interruption from one await to the next, and *)
(* at an await the calls of other requests may run. A step of the model   *)
(* is one await of one call: the awaited operation on the database as it  *)
(* is at that moment, and the code of the call up to its next await or    *)
(* its outcome. Two calls are in progress at most, the call of this       *)
(* client (request, response) and the call of another client (other).     *)
(***************************************************************************)
EXTENDS Integers, Sequences, FiniteSets, TLC

VARIABLES
    api_keys,   \* the api_keys collection: sequence of APIKeyModel documents
    users,      \* the users collection: set of user documents (unique id)
    images,     \* the images collection: set of image documents (unique id)
    issued,     \* every APIKeyCreateResponse returned so far, in order
    revoked,    \* ids of the credentials a delete has been run for
    request,    \* the call of this client in progress, or None
    response,   \* its outcome, or None while it is suspended at an await
    other       \* the call another client has in progress and its
                \* outcome, or None

vars == <<api_keys, users, images, issued, revoked, request, response, other>>

\* None where a document or a model object is expected
None == [none |-> TRUE]

\* an absent string (None where a str is expected); Python's "not s" holds
\* of None and of the empty string alike
NoString == ""

-----------------------------------------------------------------------------
(* Bounds of the model *)

\* number of credentials create_api_key may issue in one behaviour
MaxIssued == 2

\* number of credentials issued in the behaviours of SpecFlood beyond the
\* limit of the prefix lookup
FloodExtra == 1

-----------------------------------------------------------------------------
(* Python string helpers *)

Min(a, b) == IF a < b THEN a ELSE b

\* s[:n]
Prefix(s, n) == SubSeq(s, 1, Min(n, Len(s)))

\* s.startswith(c) / s.endswith(c) for a one-character c
StartsWith(s, c) == Len(s) > 0 /\ SubSeq(s, 1, 1) = c
EndsWith(s, c) == Len(s) > 0 /\ SubSeq(s, Len(s), Len(s)) = c

\* s.split("/"): the pieces of s between consecutive separators; SplitAt
\* reads s from position i on, the piece it is in starting at `start`
RECURSIVE SplitAt(_, _, _)
SplitAt(s, start, i) ==
    IF i > Len(s)
    THEN << SubSeq(s, start, Len(s)) >>
    ELSE IF SubSeq(s, i, i) = "/"
    THEN << SubSeq(s, start, i - 1) >> \o SplitAt(s, i + 1, i + 1)
    ELSE SplitAt(s, start, i + 1)

\* d[k] = v on a dict
DictSet(d, k, v) == [x \in DOMAIN d \cup {k} |-> IF x = k THEN v ELSE d[x]]
EmptyDict == [x \in {} |-> ""]

-----------------------------------------------------------------------------
(* Permission rule table and role hierarchy *)

\* a table with one more GET rule that qualifies for teams/T1/users with as
\* many literal segments as teams/{team_id}/users, and another minimum role
PermissionRulesWithTie ==
    [ POST |-> << << "teams", "root" >>,
                  << "teams/{team_id}/api-keys", "admin" >>,
                  << "teams/{team_id}/users", "admin" >>,
                  << "teams/{team_id}/images", "user" >> >>,
      PUT |-> << << "teams/{team_id}", "admin" >>,
                 << "teams/{team_id}/api-keys/{api_key_id}", "admin" >>,
                 << "teams/{team_id}/users/{user_id}", "admin" >>,
                 << "teams/{team_id}/images/{image_id}", "admin" >>,
                 << "teams/{team_id}/users/{user_id}/images/{image_id}", "user" >> >>,
      GET |-> << << "teams", "root" >>,
                 << "teams/{team_id}", "user" >>,
                 << "teams/{team_id}/api-keys", "admin" >>,
                 << "teams/{team_id}/api-keys/{api_key_id}", "admin" >>,
                 << "teams/{team_id}/users", "user" >>,
                 << "teams/T1/{resource}", "admin" >>,
                 << "teams/{team_id}/users/{user_id}", "user" >>,
                 << "teams/{team_id}/images", "user" >>,
                 << "teams/{team_id}/images/{image_id}", "user" >>,
                 << "teams/{team_id}/users/{user_id}/api-keys", "user" >>,
                 << "teams/{team_id}/users/{user_id}/api-keys/{api_key_id}", "user" >>,
                 << "teams/{team_id}/users/{user_id}/images", "user" >>,
                 << "teams/{team_id}/users/{user_id}/images/{image_id}", "user" >>,
                 << "audit-logs", "root" >> >>,
      DELETE |-> << << "teams/{team_id}", "root" >>,
                    << "teams/{team_id}/api-keys/{api_key_id}", "admin" >>,
                    << "teams/{team_id}/users/{user_id}", "admin" >>,
                    << "teams/{team_id}/images/{image_id}", "admin" >>,
                    << "teams/{team_id}/users/{user_id}/api-keys/{api_key_id}", "user" >>,
                    << "teams/{team_id}/users/{user_id}/images/{image_id}", "user" >> >> ]

\* PERMISSION_RULES: for each method the (pattern, minimum role) pairs in
\* the iteration order of the dict
PERMISSION_RULES ==
    [ POST |-> << << "teams", "root" >>,
                  << "teams/{team_id}/api-keys", "admin" >>,
                  << "teams/{team_id}/users", "admin" >>,
                  << "teams/{team_id}/images", "user" >> >>,
      PUT |-> << << "teams/{team_id}", "admin" >>,
                 << "teams/{team_id}/api-keys/{api_key_id}", "admin" >>,
                 << "teams/{team_id}/users/{user_id}", "admin" >>,
                 << "teams/{team_id}/images/{image_id}", "admin" >>,
                 << "teams/{team_id}/users/{user_id}/images/{image_id}", "user" >> >>,
      GET |-> << << "teams", "root" >>,
                 << "teams/{team_id}", "user" >>,
                 << "teams/{team_id}/api-keys", "admin" >>,
                 << "teams/{team_id}/api-keys/{api_key_id}", "admin" >>,
                 << "teams/{team_id}/users", "user" >>,
                 << "teams/{team_id}/users/{user_id}", "user" >>,
                 << "teams/{team_id}/images", "user" >>,
                 << "teams/{team_id}/images/{image_id}", "user" >>,
                 << "teams/{team_id}/users/{user_id}/api-keys", "user" >>,
                 << "teams/{team_id}/users/{user_id}/api-keys/{api_key_id}", "user" >>,
                 << "teams/{team_id}/users/{user_id}/images", "user" >>,
                 << "teams/{team_id}/users/{user_id}/images/{image_id}", "user" >>,
                 << "audit-logs", "root" >> >>,
      DELETE |-> << << "teams/{team_id}", "root" >>,
                    << "teams/{team_id}/api-keys/{api_key_id}", "admin" >>,
                    << "teams/{team_id}/users/{user_id}", "admin" >>,
                    << "teams/{team_id}/images/{image_id}", "admin" >>,
                    << "teams/{team_id}/users/{user_id}/api-keys/{api_key_id}", "user" >>,
                    << "teams/{team_id}/users/{user_id}/images/{image_id}", "user" >> >> ]

ROLE_HIERARCHY ==
    [ root |-> << "root", "admin", "user" >>,
      admin |-> << "admin", "user" >>,
      user |-> << "user" >> ]

-----------------------------------------------------------------------------
(* Ids and request paths *)

TeamIds == {"T1", "T2"}
UserIds == {"U1", "U2"}
ImageIds == {"I1"}
KeyIds == {"K1"}

\* request paths: every rule pattern with its placeholders filled in, and
\* paths that no pattern matches
Paths ==
    {"teams", "audit-logs", "nonexistent/resource"}
    \cup {"teams/" \o t : t \in TeamIds}
    \cup {"teams/" \o t \o "/" \o c : t \in TeamIds, c \in {"api-keys", "users", "images"}}
    \cup {"teams/" \o t \o "/api-keys/" \o k : t \in TeamIds, k \in KeyIds}
    \cup {"teams/" \o t \o "/images/" \o m : t \in TeamIds, m \in ImageIds}
    \cup {"teams/" \o t \o "/users/" \o u : t \in TeamIds, u \in UserIds}
    \cup {"teams/" \o t \o "/users/" \o u \o "/" \o c :
            t \in TeamIds, u \in UserIds, c \in {"api-keys", "images"}}
    \cup {"teams/" \o t \o "/users/" \o u \o "/api-keys/" \o k :
            t \in TeamIds, u \in UserIds, k \in KeyIds}
    \cup {"teams/" \o t \o "/users/" \o u \o "/images/" \o m :
            t \in TeamIds, u \in UserIds, m \in ImageIds}

\* the patterns of the rule table
RulePatterns ==
    UNION {{PERMISSION_RULES[method][i][1] : i \in 1..Len(PERMISSION_RULES[method])} :
             method \in DOMAIN PERMISSION_RULES}

\* s.split("/") of the patterns and of the request paths, worked out once
SplitTable == [s \in RulePatterns \cup Paths |-> SplitAt(s, 1, 1)]

\* s.split("/")
Split(s) == IF s \in DOMAIN SplitTable THEN SplitTable[s] ELSE SplitAt(s, 1, 1)

\* x in a list
InList(x, list) == \E i \in 1..Len(list) : list[i] = x

\* part.startswith("{") and part.endswith("}")
IsPlaceholder(part) == StartsWith(part, "{") /\ EndsWith(part, "}")

\* the key of max(): the number of static parts of a pattern
RECURSIVE CountStatic(_)
CountStatic(parts) ==
    IF parts = << >> THEN 0
    ELSE (IF IsPlaceholder(Head(parts)) THEN 0 ELSE 1) + CountStatic(Tail(parts))
StaticParts(pattern) == CountStatic(Split(pattern))

\* the inner loop without the length filter: a pattern matches when it
\* agrees with the path on the parts both have
PatternMatchesPrefix(pattern, path) ==
    LET pattern_parts == Split(pattern)
        path_parts == Split(path)
    IN  \A i \in 1..Min(Len(pattern_parts), Len(path_parts)) :
            IsPlaceholder(pattern_parts[i]) \/ pattern_parts[i] = path_parts[i]

\* the inner loop of _find_matching_pattern: equal length and every
\* non-placeholder part equal to the path part at its position
PatternMatches(pattern, path) ==
    LET pattern_parts == Split(pattern)
        path_parts == Split(path)
    IN  /\ Len(pattern_parts) = Len(path_parts)
        /\ \A i \in 1..Len(pattern_parts) :
              IsPlaceholder(pattern_parts[i]) \/ pattern_parts[i] = path_parts[i]

\* max(list, key): the first element whose key no other element exceeds
RECURSIVE MaxByStatic(_)
MaxByStatic(list) ==
    IF Len(list) = 1 THEN list[1]
    ELSE LET best == MaxByStatic(Tail(list))
         IN  IF StaticParts(list[1]) >= StaticParts(best) THEN list[1] ELSE best

\* the rule of PERMISSION_RULES[method] with the given pattern
RuleRole(method, pattern) ==
    LET rules == PERMISSION_RULES[method]
        i == CHOOSE j \in 1..Len(rules) : rules[j][1] = pattern
    IN  rules[i][2]

\* AuthorizationService._find_matching_pattern
_find_matching_pattern(method, path) ==
    IF method \notin DOMAIN PERMISSION_RULES THEN NoString
    ELSE LET rules == PERMISSION_RULES[method]
             all == [i \in 1..Len(rules) |-> rules[i][1]]
             matching_patterns == SelectSeq(all, LAMBDA p : PatternMatches(p, path))
         IN  IF matching_patterns = << >> THEN NoString
             ELSE MaxByStatic(matching_patterns)

\* a role check that accepts only the required role itself
RoleAuthorizedWhenEqual(user_role, required_role) ==
    user_role \in DOMAIN ROLE_HIERARCHY /\ user_role = required_role

\* AuthorizationService._is_role_authorized
_is_role_authorized(user_role, required_role) ==
    LET allowed_roles == IF user_role \in DOMAIN ROLE_HIERARCHY
                         THEN ROLE_HIERARCHY[user_role] ELSE << >>
    IN  InList(required_role, allowed_roles)

\* AuthorizationService.extract_path_parameters: the loop over
\* range(len(path_parts) - 1); a later assignment to a key replaces an
\* earlier one
RECURSIVE ExtractFrom(_, _, _)
ExtractFrom(path_parts, i, params) ==
    IF i > Len(path_parts) - 1 THEN params
    ELSE ExtractFrom(path_parts, i + 1,
            IF path_parts[i] = "teams" THEN DictSet(params, "team_id", path_parts[i + 1])
            ELSE IF path_parts[i] = "users" THEN DictSet(params, "user_id", path_parts[i + 1])
            ELSE IF path_parts[i] = "images" THEN DictSet(params, "image_id", path_parts[i + 1])
            ELSE IF path_parts[i] = "api-keys" THEN DictSet(params, "api_key_id", path_parts[i + 1])
            ELSE params)

extract_path_parameters(path) == ExtractFrom(Split(path), 1, EmptyDict)

-----------------------------------------------------------------------------
(* Collaborator lookups (repository reads) *)

\* MongoDBUserRepository.get_user_by_id: find_one({"id": user_id})
get_user_by_id(store, user_id) ==
    IF \E u \in store : u.id = user_id
    THEN CHOOSE u \in store : u.id = user_id
    ELSE None

\* MongoDBImageRepository.get_image_by_id: find_one({"id": image_id})
get_image_by_id(store, image_id) ==
    IF \E m \in store : m.id = image_id
    THEN CHOOSE m \in store : m.id = image_id
    ELSE None

\* MongoDBAPIKeyRepository.get_api_key_by_id: find_one({"id": api_key_id}),
\* the first document of the collection with that id
get_api_key_by_id(store, api_key_id) ==
    LET found == SelectSeq(store, LAMBDA k : k.id = api_key_id)
    IN  IF found = << >> THEN None ELSE found[1]

-----------------------------------------------------------------------------
(* Authorization engine *)

\* outcomes of a call: a returned value, or a raised HTTPException; trace
\* lists the rule-table consultation and the collaborator lookups the call
\* made, in order
Return(value, trace) ==
    [kind |-> "return", value |-> value, trace |-> trace]
Raise(status_code, detail, trace) ==
    [kind |-> "raise", status_code |-> status_code, detail |-> detail, trace |-> trace]
\* an exception that is not an HTTPException
Error(trace) == [kind |-> "error", trace |-> trace]
Lookup(name, arg) == [call |-> name, arg |-> arg]
IsLookup(t) ==
    t.call \in {"get_user_by_id", "get_api_key_by_id", "get_image_by_id",
                "get_api_keys_by_prefix"}

\* the team check of _verify_resource_ownership
TeamCheck(api_key_info, path_params) ==
    IF "team_id" \in DOMAIN path_params /\ api_key_info.team_id # path_params["team_id"]
    THEN Raise(403, "Access denied: You can only access resources within your team", << >>)
    ELSE Return(TRUE, << >>)

\* a user check in which an admin may name any user that exists
UserCheckExistsOnly(api_key_info, path_params, user_store) ==
    IF "user_id" \in DOMAIN path_params
    THEN IF api_key_info.role = "user" /\ api_key_info.user_id # path_params["user_id"]
         THEN Raise(403, "Access denied: You can only access your own information", << >>)
         ELSE IF api_key_info.role = "admin"
         THEN LET user == get_user_by_id(user_store, path_params["user_id"])
                  trace == << Lookup("get_user_by_id", path_params["user_id"]) >>
              IN  IF user = None
                  THEN Raise(403, "Access denied: User does not belong to your team", trace)
                  ELSE Return(TRUE, trace)
         ELSE Return(TRUE, << >>)
    ELSE Return(TRUE, << >>)

\* a user check that restricts admins only: a user-role principal may name
\* any user
UserCheckAdminOnly(api_key_info, path_params, user_store) ==
    IF "user_id" \in DOMAIN path_params /\ api_key_info.role = "admin"
    THEN LET user == get_user_by_id(user_store, path_params["user_id"])
             trace == << Lookup("get_user_by_id", path_params["user_id"]) >>
         IN  IF user = None \/ user.team_id # api_key_info.team_id
             THEN Raise(403, "Access denied: User does not belong to your team", trace)
             ELSE Return(TRUE, trace)
    ELSE Return(TRUE, << >>)

\* the user check of _verify_resource_ownership
UserCheck(api_key_info, path_params, user_store) ==
    IF "user_id" \in DOMAIN path_params
    THEN IF api_key_info.role = "user" /\ api_key_info.user_id # path_params["user_id"]
         THEN Raise(403, "Access denied: You can only access your own information", << >>)
         ELSE IF api_key_info.role = "admin"
         THEN LET user == get_user_by_id(user_store, path_params["user_id"])
                  trace == << Lookup("get_user_by_id", path_params["user_id"]) >>
              IN  IF user = None \/ user.team_id # api_key_info.team_id
                  THEN Raise(403, "Access denied: User does not belong to your team", trace)
                  ELSE Return(TRUE, trace)
         ELSE Return(TRUE, << >>)
    ELSE Return(TRUE, << >>)

\* an API key check that only requires the credential to exist
ApiKeyCheckExistsOnly(api_key_info, path_params, key_store) ==
    IF "api_key_id" \in DOMAIN path_params
    THEN LET api_key == get_api_key_by_id(key_store, path_params["api_key_id"])
             trace == << Lookup("get_api_key_by_id", path_params["api_key_id"]) >>
         IN  IF api_key = None
             THEN Raise(404, "API key not found", trace)
             ELSE Return(TRUE, trace)
    ELSE Return(TRUE, << >>)

\* the API key check of _verify_resource_ownership
ApiKeyCheck(api_key_info, path_params, key_store) ==
    IF "api_key_id" \in DOMAIN path_params
    THEN LET api_key == get_api_key_by_id(key_store, path_params["api_key_id"])
             trace == << Lookup("get_api_key_by_id", path_params["api_key_id"]) >>
         IN  IF api_key = None
             THEN Raise(404, "API key not found", trace)
             ELSE IF api_key_info.role = "user" /\ api_key.user_id # api_key_info.user_id
             THEN Raise(403, "Access denied: You can only access your own API keys", trace)
             ELSE IF api_key_info.role = "admin" /\ api_key.team_id # api_key_info.team_id
             THEN Raise(403, "Access denied: API key does not belong to your team", trace)
             ELSE Return(TRUE, trace)
    ELSE Return(TRUE, << >>)

\* an image check that never compares the image's team with the principal's
ImageCheckAnyTeam(api_key_info, path_params, method, image_store) ==
    IF "image_id" \in DOMAIN path_params
    THEN LET image == get_image_by_id(image_store, path_params["image_id"])
             trace == << Lookup("get_image_by_id", path_params["image_id"]) >>
         IN  IF image = None
             THEN Raise(404, "Image not found", trace)
             ELSE IF /\ method = "DELETE"
                     /\ api_key_info.role = "user"
                     /\ image.user_id # api_key_info.user_id
             THEN Raise(403, "Access denied: You can only delete your own images", trace)
             ELSE Return(TRUE, trace)
    ELSE Return(TRUE, << >>)

\* the image check of _verify_resource_ownership
ImageCheck(api_key_info, path_params, method, image_store) ==
    IF "image_id" \in DOMAIN path_params
    THEN LET image == get_image_by_id(image_store, path_params["image_id"])
             trace == << Lookup("get_image_by_id", path_params["image_id"]) >>
         IN  IF image = None
             THEN Raise(404, "Image not found", trace)
             ELSE IF image.team_id # api_key_info.team_id
             THEN Raise(403, "Access denied: Image does not belong to your team", trace)
             ELSE IF /\ method = "DELETE"
                     /\ api_key_info.role = "user"
                     /\ image.user_id # api_key_info.user_id
             THEN Raise(403, "Access denied: You can only delete your own images", trace)
             ELSE Return(TRUE, trace)
    ELSE Return(TRUE, << >>)

\* a sequencing in which every check is made and the last failure is the
\* one reported
ThenLastFailureWins(a, b) ==
    IF b.kind = "raise" THEN [b EXCEPT !.trace = a.trace \o @]
    ELSE IF a.kind = "raise" THEN [a EXCEPT !.trace = @ \o b.trace]
    ELSE [b EXCEPT !.trace = a.trace \o @]

\* b after a: the outcome of a when it raises, else the outcome of b, with
\* the calls of a before those of b
Then(a, b) ==
    IF a.kind = "raise" THEN a ELSE [b EXCEPT !.trace = a.trace \o @]

\* _verify_resource_ownership with the user check made before the team check
VerifyOwnershipUserFirst(api_key_info, path_params, method, db) ==
    IF api_key_info.role = "root" THEN Return(TRUE, << >>)
    ELSE Then(UserCheck(api_key_info, path_params, db.users),
         Then(TeamCheck(api_key_info, path_params),
         Then(ApiKeyCheck(api_key_info, path_params, db.api_keys),
              ImageCheck(api_key_info, path_params, method, db.images))))

\* AuthorizationService._verify_resource_ownership
_verify_resource_ownership(api_key_info, path_params, method, db) ==
    IF api_key_info.role = "root" THEN Return(TRUE, << >>)
    ELSE Then(TeamCheck(api_key_info, path_params),
         Then(UserCheck(api_key_info, path_params, db.users),
         Then(ApiKeyCheck(api_key_info, path_params, db.api_keys),
              ImageCheck(api_key_info, path_params, method, db.images))))

\* authorize_request that goes on to the ownership checks when no rule
\* matches, instead of refusing
AuthorizeDefaultAllow(method, path, api_key_info, path_params, db) ==
    IF api_key_info.role = "root" THEN Return(TRUE, << >>)
    ELSE LET matched_pattern == _find_matching_pattern(method, path)
             consulted == << Lookup("_find_matching_pattern", path) >>
         IN  IF /\ matched_pattern # NoString
                /\ ~ _is_role_authorized(api_key_info.role,
                                         RuleRole(method, matched_pattern))
             THEN Raise(403, "Access denied: Insufficient permissions", consulted)
             ELSE Then(Return(TRUE, consulted),
                       _verify_resource_ownership(api_key_info, path_params, method, db))

\* authorize_request without its root bypass: root goes through rule
\* resolution and the role check like any other role
AuthorizeNoRootBypass(method, path, api_key_info, path_params, db) ==
    LET matched_pattern == _find_matching_pattern(method, path)
        consulted == << Lookup("_find_matching_pattern", path) >>
    IN  IF matched_pattern = NoString
        THEN Raise(403, "Access denied: No permission rule found", consulted)
        ELSE IF ~ _is_role_authorized(api_key_info.role,
                                      RuleRole(method, matched_pattern))
        THEN Raise(403, "Access denied: Insufficient permissions", consulted)
        ELSE Then(Return(TRUE, consulted),
                  _verify_resource_ownership(api_key_info, path_params, method, db))

\* AuthorizationService.authorize_request
authorize_request(method, path, api_key_info, path_params, db) ==
    IF api_key_info.role = "root" THEN Return(TRUE, << >>)
    ELSE LET matched_pattern == _find_matching_pattern(method, path)
             consulted == << Lookup("_find_matching_pattern", path) >>
         IN  IF matched_pattern = NoString
             THEN Raise(403, "Access denied: No permission rule found", consulted)
             ELSE IF ~ _is_role_authorized(api_key_info.role,
                                           RuleRole(method, matched_pattern))
             THEN Raise(403, "Access denied: Insufficient permissions", consulted)
             ELSE Then(Return(TRUE, consulted),
                       _verify_resource_ownership(api_key_info, path_params, method, db))

-----------------------------------------------------------------------------
(* Credentials *)

\* dependencies.py: ROOT_API_KEY, the default of the environment variable
ROOT_API_KEY == "root-admin-key"

\* APIKeyAuthenticationService.__init__
KEY_PREFIX_LENGTH == 8
PBKDF2_ITERATIONS == 100000

\* APIKeyManagementService.__init__
MGMT_KEY_PREFIX_LENGTH == 8
MGMT_PBKDF2_ITERATIONS == 100000

\* get_api_keys_by_prefix: cursor.to_list(length=100)
PREFIX_LOOKUP_LIMIT == 100


\* the character U+0000; a string of the model cannot hold it, so the form
\* feed stands for it: no string of the program holds a form feed
NUL == "\f"

\* ord(c) of the characters a string of the model holds: those of the codes
\* 32 to 95 and 97 to 126, in the order of their codes (a string of the
\* model cannot hold the character of code 96), and four control characters
Ord ==
    LET ASCII_32 == " !\"#$%&'()*+,-./0123456789:;<=>?@ABCDEFGHIJKLMNOPQRSTUVWXYZ[\\]^_"
        ASCII_97 == "abcdefghijklmnopqrstuvwxyz{|}~"
    IN  [c \in {SubSeq(ASCII_32, i, i) : i \in 1..Len(ASCII_32)}
                 \cup {SubSeq(ASCII_97, i, i) : i \in 1..Len(ASCII_97)}
                 \cup {NUL, "\t", "\n", "\r"} |->
            CASE c = NUL -> 0
              [] c = "\t" -> 9
              [] c = "\n" -> 10
              [] c = "\r" -> 13
              [] \E i \in 1..Len(ASCII_32) : SubSeq(ASCII_32, i, i) = c ->
                    31 + CHOOSE i \in 1..Len(ASCII_32) : SubSeq(ASCII_32, i, i) = c
              [] OTHER -> 96 + CHOOSE i \in 1..Len(ASCII_97) : SubSeq(ASCII_97, i, i) = c]

\* s.encode(): the bytes of an ASCII string, one per character
encode(s) ==
    LET RECURSIVE EncodeFrom(_)
        EncodeFrom(i) ==
            IF i > Len(s) THEN << >>
            ELSE << Ord[SubSeq(s, i, i)] >> \o EncodeFrom(i + 1)
    IN  EncodeFrom(1)

\* bytes.hex(): two hexadecimal digits per byte
hex(bytes) ==
    LET HexDigit(n) == SubSeq("0123456789abcdef", n + 1, n + 1)
        RECURSIVE HexFrom(_)
        HexFrom(i) ==
            IF i > Len(bytes) THEN ""
            ELSE HexDigit(bytes[i] \div 16) \o HexDigit(bytes[i] % 16) \o HexFrom(i + 1)
    IN  HexFrom(1)

\* n zero bytes
RECURSIVE Zeros(_)
Zeros(n) == IF n <= 0 THEN << >> ELSE << 0 >> \o Zeros(n - 1)

\* SHA-256 after FIPS 180-4. A 32-bit word is the pair of its high and low
\* 16 bits.

\* bitwise exclusive or and bitwise and of two numbers of n bits
RECURSIVE BitXor(_, _, _)
BitXor(a, b, n) ==
    IF n = 0 THEN 0
    ELSE ((a + b) % 2) + 2 * BitXor(a \div 2, b \div 2, n - 1)
RECURSIVE BitAnd(_, _, _)
BitAnd(a, b, n) ==
    IF n = 0 THEN 0
    ELSE ((a % 2) * (b % 2)) + 2 * BitAnd(a \div 2, b \div 2, n - 1)

WordXor(x, y) == << BitXor(x[1], y[1], 16), BitXor(x[2], y[2], 16) >>
WordAnd(x, y) == << BitAnd(x[1], y[1], 16), BitAnd(x[2], y[2], 16) >>
WordAdd(x, y) ==
    << (x[1] + y[1] + ((x[2] + y[2]) \div 65536)) % 65536, (x[2] + y[2]) % 65536 >>

\* x rotated and x shifted to the right by n bits, 0 <= n < 32
RECURSIVE RotR(_, _)
RotR(x, n) ==
    IF n >= 16 THEN RotR(<< x[2], x[1] >>, n - 16)
    ELSE << (x[1] \div 2^n) + (x[2] % 2^n) * 2^(16 - n),
            (x[2] \div 2^n) + (x[1] % 2^n) * 2^(16 - n) >>
ShR(x, n) ==
    IF n >= 16 THEN << 0, x[1] \div 2^(n - 16) >>
    ELSE << x[1] \div 2^n, (x[2] \div 2^n) + (x[1] % 2^n) * 2^(16 - n) >>

\* the functions of FIPS 180-4, section 4.1.2
Ch(x, y, z) == WordXor(WordAnd(x, y), WordAnd(<< 65535 - x[1], 65535 - x[2] >>, z))
Maj(x, y, z) == WordXor(WordXor(WordAnd(x, y), WordAnd(x, z)), WordAnd(y, z))
BigSigma0(x) == WordXor(WordXor(RotR(x, 2), RotR(x, 13)), RotR(x, 22))
BigSigma1(x) == WordXor(WordXor(RotR(x, 6), RotR(x, 11)), RotR(x, 25))
SmallSigma0(x) == WordXor(WordXor(RotR(x, 7), RotR(x, 18)), ShR(x, 3))
SmallSigma1(x) == WordXor(WordXor(RotR(x, 17), RotR(x, 19)), ShR(x, 10))

\* the constants and the initial hash value of SHA-256
SHA256_K ==
    <<
      << 17034, 12184 >>, << 28983, 17553 >>, << 46528, 64463 >>, << 59829, 56229 >>,
      << 14678, 49755 >>, << 23025, 4593 >>, << 37439, 33444 >>, << 43804, 24277 >>,
      << 55303, 43672 >>, << 4739, 23297 >>, << 9265, 34238 >>, << 21772, 32195 >>,
      << 29374, 23924 >>, << 32990, 45566 >>, << 39900, 1703 >>, << 49563, 61812 >>,
      << 58523, 27073 >>, << 61374, 18310 >>, << 4033, 40390 >>, << 9228, 41420 >>,
      << 11753, 11375 >>, << 19060, 33962 >>, << 23728, 43484 >>, << 30457, 35034 >>,
      << 38974, 20818 >>, << 43057, 50797 >>, << 45059, 10184 >>, << 48985, 32711 >>,
      << 50912, 3059 >>, << 54695, 37191 >>, << 1738, 25425 >>, << 5161, 10599 >>,
      << 10167, 2693 >>, << 11803, 8504 >>, << 19756, 28156 >>, << 21304, 3347 >>,
      << 25866, 29524 >>, << 30314, 2747 >>, << 33218, 51502 >>, << 37490, 11397 >>,
      << 41663, 59553 >>, << 43034, 26187 >>, << 49739, 35696 >>, << 51052, 20899 >>,
      << 53650, 59417 >>, << 54937, 1572 >>, << 62478, 13701 >>, << 4202, 41072 >>,
      << 6564, 49430 >>, << 7735, 27656 >>, << 10056, 30540 >>, << 13488, 48309 >>,
      << 14620, 3251 >>, << 20184, 43594 >>, << 23452, 51791 >>, << 26670, 28659 >>,
      << 29839, 33518 >>, << 30885, 25455 >>, << 33992, 30740 >>, << 36039, 520 >>,
      << 37054, 65530 >>, << 42064, 27883 >>, << 48889, 41975 >>, << 50801, 30962 >>
    >>

SHA256_H0 ==
    <<
      << 27145, 58983 >>, << 47975, 44677 >>, << 15470, 62322 >>, << 42319, 62778 >>,
      << 20750, 21119 >>, << 39685, 26764 >>, << 8067, 55723 >>, << 23520, 52505 >>
    >>

\* the message with its padding: the byte 0x80, zero bytes up to 56 modulo
\* 64, and the length of the message in bits as eight bytes
Padded(bytes) ==
    LET bits == 8 * Len(bytes)
    IN  bytes \o << 128 >> \o Zeros((119 - (Len(bytes) % 64)) % 64)
            \o << 0, 0, 0, 0, bits \div 16777216, (bits \div 65536) % 256,
                  (bits \div 256) % 256, bits % 256 >>

\* the sixteen words of the block that starts after byte `at`
BlockWords(bytes, at) ==
    [t \in 1..16 |-> << bytes[at + 4 * t - 3] * 256 + bytes[at + 4 * t - 2],
                        bytes[at + 4 * t - 1] * 256 + bytes[at + 4 * t] >>]

\* the message schedule, one word at a time
RECURSIVE Schedule(_)
Schedule(w) ==
    IF Len(w) = 64 THEN w
    ELSE LET t == Len(w) + 1
         IN  Schedule(w \o << WordAdd(WordAdd(SmallSigma1(w[t - 2]), w[t - 7]),
                                      WordAdd(SmallSigma0(w[t - 15]), w[t - 16])) >>)

\* the working variables v = <<a, b, c, d, e, f, g, h>> after a round with
\* the temporary words T1 and T2
Working(v, T1, T2) ==
    << WordAdd(T1, T2), v[1], v[2], v[3], WordAdd(v[4], T1), v[5], v[6], v[7] >>

\* round t on the working variables
Round(v, w, t) ==
    Working(v,
            WordAdd(WordAdd(WordAdd(v[8], BigSigma1(v[5])), Ch(v[5], v[6], v[7])),
                    WordAdd(SHA256_K[t], w[t])),
            WordAdd(BigSigma0(v[1]), Maj(v[1], v[2], v[3])))

\* the working variables before the first round and after each of the 64
RECURSIVE Rounds(_, _)
Rounds(vs, w) ==
    IF Len(vs) = 65 THEN vs
    ELSE Rounds(vs \o << Round(vs[Len(vs)], w, Len(vs)) >>, w)

\* the hash value h after the block whose rounds end in the working
\* variables v
Added(h, v) ==
    << WordAdd(h[1], v[1]), WordAdd(h[2], v[2]), WordAdd(h[3], v[3]), WordAdd(h[4], v[4]),
       WordAdd(h[5], v[5]), WordAdd(h[6], v[6]), WordAdd(h[7], v[7]), WordAdd(h[8], v[8]) >>

\* the hash value after the last block; hs holds the hash value before the
\* first block and after each block so far
RECURSIVE Compress(_, _)
Compress(hs, bytes) ==
    IF 64 * (Len(hs) - 1) >= Len(bytes) THEN hs[Len(hs)]
    ELSE Compress(hs \o << Added(hs[Len(hs)],
                                 Rounds(<< hs[Len(hs)] >>,
                                        Schedule(BlockWords(bytes, 64 * (Len(hs) - 1))
                                                    \o << >>))[65]) >>,
                  bytes)

\* the 32 bytes of the hash value, most significant byte first
DigestOf(h) ==
    [i \in 1..32 |->
        IF i % 2 = 1
        THEN h[((i - 1) \div 4) + 1][(((i - 1) % 4) \div 2) + 1] \div 256
        ELSE h[((i - 1) \div 4) + 1][(((i - 1) % 4) \div 2) + 1] % 256] \o << >>

\* hashlib.sha256(bytes).digest(), after FIPS 180-4
sha256(bytes) == DigestOf(Compress(<< SHA256_H0 >>, Padded(bytes)))

\* the block size of SHA-256 in bytes
HMAC_BLOCK_SIZE == 64

\* the key block of HMAC: a key longer than the block is replaced by its
\* SHA-256 digest of 32 bytes, and the key is filled up to the block with
\* zero bytes
hmac_key(key) ==
    IF Len(key) > HMAC_BLOCK_SIZE
    THEN sha256(key) \o Zeros(HMAC_BLOCK_SIZE - 32)
    ELSE key \o Zeros(HMAC_BLOCK_SIZE - Len(key))

\* values of os.urandom(32).hex(): the salts create_api_key draws
Salts == {"5a17", "c0de"}

\* values of secrets.token_urlsafe: the first two share their first
\* KEY_PREFIX_LENGTH characters
SecretPool == {"sk_AbCdEfGh12345", "sk_AbCdEfGh99999", "sk_ZyXwVuTs00001"}

\* a key of 72 characters, longer than the block of HMAC: an issued secret
\* followed by 56 more characters
LongKey == "sk_AbCdEfGh12345" \o "xxxxxxxxxxxxxxxxxxxxxxxxxxxxxxxxxxxxxxxxxxxxxxxxxxxxxxxx"

\* what a caller may present in the X-API-Key header; the last two are an
\* issued secret followed by a NUL, which hashes as the secret does, and
\* the key longer than the block of HMAC
PresentedKeys ==
    SecretPool \cup {NoString, ROOT_API_KEY, "sk_", "sk_AbCdEfGh00000", "sk_NoSuchKey00000",
                     "sk_AbCdEfGh12345" \o NUL, LongKey}

\* the n-th value of secrets.token_urlsafe in the behaviours of SpecFlood:
\* all share their first KEY_PREFIX_LENGTH characters
FloodSecret(n) == "sk_Flood" \o ToString(n)

\* hashlib.pbkdf2_hmac('sha256', password, salt, iterations).hex() of the
\* bytes of a password and of a salt: the digest is a term over the
\* iteration count, the salt and the key block HMAC derives from the
\* password, each written in hexadecimal, so that two terms are equal only
\* when their parts are; PBKDF2 reads the password through that key block
\* only, and SHA-256 itself has no collisions here
pbkdf2_hmac(password, salt, iterations) ==
    "pbkdf2-sha256$" \o ToString(iterations) \o "$" \o hex(salt)
        \o "$" \o hex(hmac_key(password))

\* the hashes of the keys and salts of the behaviours, worked out once (the
\* function is merged with the empty one, so that it is kept as the table
\* of its values)
HashTable ==
    [p \in (PresentedKeys \cup {FloodSecret(n) : n \in 1..(PREFIX_LOOKUP_LIMIT + FloodExtra)})
                \X Salts |->
        pbkdf2_hmac(encode(p[1]), encode(p[2]), PBKDF2_ITERATIONS)] @@ << >>

\* computed_hash of authenticate_api_key and key_hash of create_api_key:
\* hashlib.pbkdf2_hmac('sha256', api_key.encode(), key_salt.encode(),
\* iterations).hex()
computed_hash(api_key, key_salt, iterations) ==
    IF iterations = PBKDF2_ITERATIONS /\ << api_key, key_salt >> \in DOMAIN HashTable
    THEN HashTable[<< api_key, key_salt >>]
    ELSE pbkdf2_hmac(encode(api_key), encode(key_salt), iterations)

\* models/api_key_model.py: APIKeyModel
APIKeyModel(id, name, key_prefix, key_hash, key_salt, role, user_id, team_id, created_at) ==
    [id |-> id, name |-> name, key_prefix |-> key_prefix, key_hash |-> key_hash,
     key_salt |-> key_salt, role |-> role, user_id |-> user_id, team_id |-> team_id,
     created_at |-> created_at]

\* models/api_key_model.py: APIKeyCreateResponse
APIKeyCreateResponse(id, name, key, role, user_id, team_id, created_at) ==
    [id |-> id, name |-> name, key |-> key, role |-> role, user_id |-> user_id,
     team_id |-> team_id, created_at |-> created_at]

\* api_key_data that keeps the whole key where the prefix belongs
ApiKeyDataWholeKey(api_key_id, name, api_key_value, salt, role, user_id, team_id, created_at) ==
    APIKeyModel(api_key_id, name,
                api_key_value,
                computed_hash(api_key_value, salt, MGMT_PBKDF2_ITERATIONS),
                salt, role, user_id, team_id, created_at)

\* the api_key_data document that create_api_key stores
api_key_data(api_key_id, name, api_key_value, salt, role, user_id, team_id, created_at) ==
    APIKeyModel(api_key_id, name,
                Prefix(api_key_value, MGMT_KEY_PREFIX_LENGTH),
                computed_hash(api_key_value, salt, MGMT_PBKDF2_ITERATIONS),
                salt, role, user_id, team_id, created_at)

\* the root_key_data of authenticate_api_key
root_key_data(now) ==
    APIKeyModel("root", "Root API Key", "", "", "", "root", "root", "", now)

\* the first n elements of a list
Take(list, n) == SubSeq(list, 1, Min(n, Len(list)))

\* MongoDBAPIKeyRepository.get_api_keys_by_prefix
get_api_keys_by_prefix(store, key_prefix) ==
    Take(SelectSeq(store, LAMBDA k : k.key_prefix = key_prefix), PREFIX_LOOKUP_LIMIT)

\* a delete that removes every credential of the owner of the given one
DeleteOwnersKeys(store, api_key_id) ==
    LET owners == {store[i].user_id : i \in {j \in 1..Len(store) : store[j].id = api_key_id}}
    IN  SelectSeq(store, LAMBDA k : k.user_id \notin owners)

\* MongoDBAPIKeyRepository.delete_api_key: delete_one({"id": api_key_id})
\* removes the first document with that id
RECURSIVE delete_one(_, _)
delete_one(store, api_key_id) ==
    IF store = << >> THEN << >>
    ELSE IF Head(store).id = api_key_id THEN Tail(store)
    ELSE << Head(store) >> \o delete_one(Tail(store), api_key_id)

\* MongoDBAPIKeyRepository.delete_user_api_keys:
\* delete_many({"user_id": user_id})
delete_user_api_keys(store, user_id) ==
    SelectSeq(store, LAMBDA k : k.user_id # user_id)

\* MongoDBUserRepository.delete_user: delete_one({"id": user_id}); ids are
\* unique in the users collection
users_delete_user(store, user_id) == {u \in store : u.id # user_id}

\* authenticate_api_key that takes the first credential of the prefix
\* without comparing hashes
AuthenticateByPrefixOnly(api_key, store, now) ==
    IF api_key = NoString
    THEN Raise(401, "API key is missing", << >>)
    ELSE IF api_key = ROOT_API_KEY
    THEN Return(root_key_data(now), << >>)
    ELSE IF Len(api_key) < KEY_PREFIX_LENGTH
    THEN Raise(401, "Invalid API key", << >>)
    ELSE LET key_prefix == Prefix(api_key, KEY_PREFIX_LENGTH)
             potential_keys == get_api_keys_by_prefix(store, key_prefix)
             trace == << Lookup("get_api_keys_by_prefix", key_prefix) >>
         IN  IF potential_keys = << >>
             THEN Raise(401, "Invalid API key", trace)
             ELSE Return(potential_keys[1], trace)

\* authenticate_api_key that recognises the root key only after the
\* prefix lookup
AuthenticateRootAfterLookup(api_key, store, now) ==
    IF api_key = NoString
    THEN Raise(401, "API key is missing", << >>)
    ELSE IF Len(api_key) < KEY_PREFIX_LENGTH
    THEN Raise(401, "Invalid API key", << >>)
    ELSE LET key_prefix == Prefix(api_key, KEY_PREFIX_LENGTH)
             potential_keys == get_api_keys_by_prefix(store, key_prefix)
             trace == << Lookup("get_api_keys_by_prefix", key_prefix) >>
             matching == SelectSeq(potential_keys,
                            LAMBDA stored_key :
                                computed_hash(api_key, stored_key.key_salt, PBKDF2_ITERATIONS)
                                    = stored_key.key_hash)
         IN  IF api_key = ROOT_API_KEY
             THEN Return(root_key_data(now), trace)
             ELSE IF potential_keys = << >>
             THEN Raise(401, "Invalid API key", trace)
             ELSE IF matching # << >>
             THEN Return(matching[1], trace)
             ELSE Raise(401, "Invalid API key", trace)

\* authenticate_api_key without the length check: a short key goes to the
\* prefix lookup with what it has
AuthenticateNoLengthCheck(api_key, store, now) ==
    IF api_key = NoString
    THEN Raise(401, "API key is missing", << >>)
    ELSE IF api_key = ROOT_API_KEY
    THEN Return(root_key_data(now), << >>)
    ELSE LET key_prefix == Prefix(api_key, KEY_PREFIX_LENGTH)
             potential_keys == get_api_keys_by_prefix(store, key_prefix)
             trace == << Lookup("get_api_keys_by_prefix", key_prefix) >>
             matching == SelectSeq(potential_keys,
                            LAMBDA stored_key :
                                computed_hash(api_key, stored_key.key_salt, PBKDF2_ITERATIONS)
                                    = stored_key.key_hash)
         IN  IF potential_keys = << >>
             THEN Raise(401, "Invalid API key", trace)
             ELSE IF matching # << >>
             THEN Return(matching[1], trace)
             ELSE Raise(401, "Invalid API key", trace)

\* APIKeyAuthenticationService.authenticate_api_key
authenticate_api_key(api_key, store, now) ==
    IF api_key = NoString
    THEN Raise(401, "API key is missing", << >>)
    ELSE IF api_key = ROOT_API_KEY
    THEN Return(root_key_data(now), << >>)
    ELSE IF Len(api_key) < KEY_PREFIX_LENGTH
    THEN Raise(401, "Invalid API key", << >>)
    ELSE LET key_prefix == Prefix(api_key, KEY_PREFIX_LENGTH)
             potential_keys == get_api_keys_by_prefix(store, key_prefix)
             trace == << Lookup("get_api_keys_by_prefix", key_prefix) >>
             matching == SelectSeq(potential_keys,
                            LAMBDA stored_key :
                                computed_hash(api_key, stored_key.key_salt, PBKDF2_ITERATIONS)
                                    = stored_key.key_hash)
         IN  IF potential_keys = << >>
             THEN Raise(401, "Invalid API key", trace)
             ELSE IF matching # << >>
             THEN Return(matching[1], trace)
             ELSE Raise(401, "Invalid API key", trace)

-----------------------------------------------------------------------------
(* Inputs *)

\* the users another client deletes
OtherUserIds == {"U2"}
Roles == {"admin", "user"}
Methods == {"GET", "POST", "PUT", "DELETE", "PATCH"}
Timestamps == {"2025-05-01T12:00:00Z", "2025-05-01T12:30:00Z"}

\* the (user_id, team_id) pairs create_api_key is called with
Owners == { << "U1", "T1" >>, << "U2", "T2" >> }

\* str(uuid.uuid4()): an id no earlier call returned
FreshKeyId == "key-" \o ToString(Len(issued) + 1)

IssuedSecrets == {issued[i].key : i \in 1..Len(issued)}
IssuedIds == {issued[i].id : i \in 1..Len(issued)}

\* APIKeyModel.role is any string: the roles of the hierarchy below root,
\* and one role the hierarchy does not know
PrincipalRoles == Roles \cup {"guest"}

\* the principals requests are made by: the root principal that
\* authentication returns, credentials of every role of the hierarchy, user
\* and team, and a credential of a role outside the hierarchy
Principals ==
    {root_key_data(now) : now \in Timestamps}
    \cup {APIKeyModel("api-key-123", "Test API Key", "sk_test_", "hashed_key_value",
                      "salt_value", role, u, t, "2025-05-01T12:00:00Z") :
            role \in Roles, u \in UserIds, t \in TeamIds}
    \cup {APIKeyModel("api-key-123", "Test API Key", "sk_test_", "hashed_key_value",
                      "salt_value", role, "U1", "T1", "2025-05-01T12:00:00Z") :
            role \in PrincipalRoles \ Roles}

\* a user document and an image document (the fields the engine and the
\* services read)
UserModel(id, team_id) ==
    [id |-> id, username |-> "user-" \o id, email |-> id \o "@example.com",
     team_id |-> team_id]
ImageModel(id, user_id, team_id) == [id |-> id, user_id |-> user_id, team_id |-> team_id]

\* database contents the authorization requests run against: user U1 of
\* team T1, user U2 absent or in either team, image I1 and credential K1
\* absent or owned by a user of a team
UserWorlds ==
    {{UserModel("U1", "T1")}}
    \cup {{UserModel("U1", "T1"), UserModel("U2", t)} : t \in TeamIds}
ResourceOwners == { << "U1", "T1" >>, << "U2", "T1" >>, << "U2", "T2" >> }
ImageWorlds ==
    {{}} \cup {{ImageModel("I1", o[1], o[2])} : o \in ResourceOwners}
KeyWorldsOf(roles) ==
    {<< >>}
    \cup {<< api_key_data("K1", "Key", "sk_AbCdEfGh12345", "5a17", role, o[1], o[2],
                          "2025-05-01T12:00:00Z") >> : role \in roles, o \in ResourceOwners}
KeyWorlds == KeyWorldsOf({"user"})

-----------------------------------------------------------------------------
(* Operations *)

db == [users |-> users, api_keys |-> api_keys, images |-> images,
       api_keys_by_prefix |-> api_keys]

\* A call of a service method is a record of its arguments, of the values
\* its random sources and the collaborators outside the database return,
\* of the await it is suspended at (pc) and of the repository calls it has
\* made (trace). One step of a call is one await: the awaited operation
\* runs on the database as it is, and the call runs on to its next await
\* (Goes) or to its outcome (Ends).
Goes(call, pc, made, database) ==
    [call |-> [call EXCEPT !.pc = pc, !.trace = made], outcome |-> None, db |-> database]
Ends(call, outcome, database) ==
    [call |-> [call EXCEPT !.pc = "return", !.trace = outcome.trace],
     outcome |-> outcome, db |-> database]

\* a call of APIKeyManagementService.create_api_key with the values its
\* random sources and its clock return (api_key_id, api_key_value, salt,
\* created_at)
CreateApiKeyCall(name, role, user_id, team_id, api_key_id, api_key_value, salt, created_at) ==
    [op |-> "create_api_key", pc |-> "create_api_key", trace |-> << >>,
     name |-> name, role |-> role, user_id |-> user_id, team_id |-> team_id,
     api_key_id |-> api_key_id, api_key_value |-> api_key_value, salt |-> salt,
     created_at |-> created_at]

\* APIKeyManagementService.create_api_key: its one await is the insert
create_api_key(call, database) ==
    Ends(call,
         Return(APIKeyCreateResponse(call.api_key_id, call.name, call.api_key_value,
                                     call.role, call.user_id, call.team_id,
                                     call.created_at),
                Append(call.trace, Lookup("create_api_key", call.api_key_id))),
         [database EXCEPT !.api_keys =
             Append(@, api_key_data(call.api_key_id, call.name, call.api_key_value,
                                    call.salt, call.role, call.user_id, call.team_id,
                                    call.created_at))])

\* a call of APIKeyManagementService.delete_api_key
DeleteApiKeyCall(api_key_id) ==
    [op |-> "delete_api_key", pc |-> "get_api_key_by_id", trace |-> << >>,
     api_key_id |-> api_key_id]

\* APIKeyManagementService.delete_api_key: the read of the credential, 404
\* when there is none, then the delete
delete_api_key(call, database) ==
    LET made == Append(call.trace, Lookup(call.pc, call.api_key_id))
    IN  IF call.pc = "get_api_key_by_id"
        THEN IF get_api_key_by_id(database.api_keys, call.api_key_id) = None
             THEN Ends(call, Raise(404, "API key not found", made), database)
             ELSE Goes(call, "delete_api_key", made, database)
        ELSE Ends(call, Return(None, made),
                  [database EXCEPT !.api_keys = delete_one(@, call.api_key_id)])

\* a call of UserService.create_user with the value uuid4 returns (user_id)
\* and the team get_team_by_id finds (team); the teams collection is not
\* part of the model
CreateUserCall(username, email, team_id, team, user_id) ==
    [op |-> "create_user", pc |-> "get_team_by_id", trace |-> << >>,
     username |-> username, email |-> email, team_id |-> team_id, team |-> team,
     user_id |-> user_id]

\* UserService.create_user: 404 without the team, 400 when the username or
\* the email is taken, else the insert of the user
create_user(call, database) ==
    CASE call.pc = "get_team_by_id" ->
            LET made == Append(call.trace, Lookup(call.pc, call.team_id))
            IN  IF call.team = None
                THEN Ends(call, Raise(404, "Team not found", made), database)
                ELSE Goes(call, "get_user_by_username", made, database)
      [] call.pc = "get_user_by_username" ->
            LET made == Append(call.trace, Lookup(call.pc, call.username))
            IN  IF \E u \in database.users : u.username = call.username
                THEN Ends(call, Raise(400, "Username already registered", made), database)
                ELSE Goes(call, "get_user_by_email", made, database)
      [] call.pc = "get_user_by_email" ->
            LET made == Append(call.trace, Lookup(call.pc, call.email))
            IN  IF \E u \in database.users : u.email = call.email
                THEN Ends(call, Raise(400, "Email already registered", made), database)
                ELSE Goes(call, "create_user", made, database)
      [] call.pc = "create_user" ->
            LET made == Append(call.trace, Lookup(call.pc, call.user_id))
                user_db == [id |-> call.user_id, username |-> call.username,
                            email |-> call.email, team_id |-> call.team_id]
            IN  Ends(call, Return(user_db, made),
                     [database EXCEPT !.users = @ \cup {user_db}])

\* a call of UserService.delete_user
DeleteUserCall(user_id) ==
    [op |-> "delete_user", pc |-> "get_user_by_id", trace |-> << >>,
     user_id |-> user_id]

\* UserService.delete_user: the read of the user, 404 when there is none,
\* then the delete of the user's API keys, then the delete of the user
\* record
delete_user(call, database) ==
    LET made == Append(call.trace, Lookup(call.pc, call.user_id))
    IN  CASE call.pc = "get_user_by_id" ->
                IF get_user_by_id(database.users, call.user_id) = None
                THEN Ends(call, Raise(404, "User not found", made), database)
                ELSE Goes(call, "delete_user_api_keys", made, database)
          [] call.pc = "delete_user_api_keys" ->
                Goes(call, "delete_user", made,
                     [database EXCEPT !.api_keys = delete_user_api_keys(@, call.user_id)])
          [] call.pc = "delete_user" ->
                Ends(call, Return(None, made),
                     [database EXCEPT !.users = users_delete_user(@, call.user_id)])

\* a call of ImageService.upload_team_image with the team get_team_by_id
\* finds (team), what imghdr makes of the file (image_format) and the
\* value uuid4 returns (image_id)
UploadTeamImageCall(user_id, team_id, team, image_format, image_id) ==
    [op |-> "upload_team_image", pc |-> "get_team_by_id", trace |-> << >>,
     user_id |-> user_id, team_id |-> team_id, team |-> team,
     image_format |-> image_format, image_id |-> image_id]

\* ImageService.upload_team_image: 404 without the team, the file is read
\* and rewound, 400 when it is no image, else the file is uploaded to the
\* bucket and the image record inserted
upload_team_image(call, database) ==
    CASE call.pc = "get_team_by_id" ->
            LET made == Append(call.trace, Lookup(call.pc, call.team_id))
            IN  IF call.team = None
                THEN Ends(call, Raise(404, "Team not found", made), database)
                ELSE Goes(call, "file.read", made, database)
      [] call.pc = "file.read" ->
            Goes(call, "file.seek", call.trace, database)
      [] call.pc = "file.seek" ->
            IF call.image_format = NoString
            THEN Ends(call, Raise(400, "File is not a valid image", call.trace), database)
            ELSE Goes(call, "create_image", call.trace, database)
      [] call.pc = "create_image" ->
            LET made == Append(call.trace, Lookup(call.pc, call.image_id))
                image_data == ImageModel(call.image_id, call.user_id, call.team_id)
            IN  Ends(call, Return(image_data, made),
                     [database EXCEPT !.images = @ \cup {image_data}])

\* a call of ImageService.delete_image
DeleteImageCall(image_id) ==
    [op |-> "delete_image", pc |-> "get_image_by_id", trace |-> << >>,
     image_id |-> image_id]

\* ImageService.delete_image: the read of the image, 404 when there is
\* none, then the blob is deleted and the image record after it
delete_image(call, database) ==
    LET made == Append(call.trace, Lookup(call.pc, call.image_id))
    IN  IF call.pc = "get_image_by_id"
        THEN IF get_image_by_id(database.images, call.image_id) = None
             THEN Ends(call, Raise(404, "Image not found", made), database)
             ELSE Goes(call, "delete_image", made, database)
        ELSE Ends(call, Return(None, made),
                  [database EXCEPT !.images = {m \in @ : m.id # call.image_id}])

\* a call of TeamService.delete_team_image with the team get_team_by_id
\* finds
DeleteTeamImageCall(team_id, image_id, team) ==
    [op |-> "delete_team_image", pc |-> "get_team_by_id", trace |-> << >>,
     team_id |-> team_id, image_id |-> image_id, team |-> team]

\* TeamService.delete_team_image: 404 without the team or the image, 403
\* for an image of another team, else the file is deleted from storage and
\* the image record after it
delete_team_image(call, database) ==
    CASE call.pc = "get_team_by_id" ->
            LET made == Append(call.trace, Lookup(call.pc, call.team_id))
            IN  IF call.team = None
                THEN Ends(call, Raise(404, "Team not found", made), database)
                ELSE Goes(call, "get_image_by_id", made, database)
      [] call.pc = "get_image_by_id" ->
            LET made == Append(call.trace, Lookup(call.pc, call.image_id))
                image == get_image_by_id(database.images, call.image_id)
            IN  IF image = None
                THEN Ends(call, Raise(404, "Image not found", made), database)
                ELSE IF image.team_id # call.team_id
                THEN Ends(call, Raise(403, "Image does not belong to this team", made),
                          database)
                ELSE Goes(call, "delete_file", made, database)
      [] call.pc = "delete_file" ->
            Goes(call, "delete_image", call.trace, database)
      [] call.pc = "delete_image" ->
            Ends(call, Return(None, Append(call.trace, Lookup(call.pc, call.image_id))),
                 [database EXCEPT !.images = {m \in @ : m.id # call.image_id}])

\* a call of TeamService.delete_team with the team get_team_by_id finds
DeleteTeamCall(team_id, team) ==
    [op |-> "delete_team", pc |-> "get_team_by_id", trace |-> << >>,
     team_id |-> team_id, team |-> team]

\* TeamService.delete_team: 404 without the team, 400 while the team has
\* users; the images of the team are read, and the loop over them
\* subscripts the first ImageModel, which raises TypeError; with no image
\* read, the image records of the team are deleted and the team after them
delete_team(call, database) ==
    LET made == Append(call.trace, Lookup(call.pc, call.team_id))
    IN  CASE call.pc = "get_team_by_id" ->
                IF call.team = None
                THEN Ends(call, Raise(404, "Team not found", made), database)
                ELSE Goes(call, "get_users_count_by_team_id", made, database)
          [] call.pc = "get_users_count_by_team_id" ->
                IF \E u \in database.users : u.team_id = call.team_id
                THEN Ends(call,
                          Raise(400, "Cannot delete team with active users. Reassign or delete users first.",
                                made),
                          database)
                ELSE Goes(call, "get_images_by_team_id", made, database)
          [] call.pc = "get_images_by_team_id" ->
                IF \E m \in database.images : m.team_id = call.team_id
                THEN Ends(call, Error(made), database)
                ELSE Goes(call, "delete_images_by_team_id", made, database)
          [] call.pc = "delete_images_by_team_id" ->
                Goes(call, "delete_team", made,
                     [database EXCEPT !.images = {m \in @ : m.team_id # call.team_id}])
          [] call.pc = "delete_team" ->
                Ends(call, Return(None, made), database)

\* one await of a service call
Service(call, database) ==
    CASE call.op = "create_api_key" -> create_api_key(call, database)
      [] call.op = "delete_api_key" -> delete_api_key(call, database)
      [] call.op = "create_user" -> create_user(call, database)
      [] call.op = "delete_user" -> delete_user(call, database)
      [] call.op = "upload_team_image" -> upload_team_image(call, database)
      [] call.op = "delete_image" -> delete_image(call, database)
      [] call.op = "delete_team_image" -> delete_team_image(call, database)
      [] call.op = "delete_team" -> delete_team(call, database)
ServiceOps ==
    {"create_api_key", "delete_api_key", "create_user", "delete_user",
     "upload_team_image", "delete_image", "delete_team_image", "delete_team"}

\* the ids of the credentials of a collection
Ids(store) == {store[i].id : i \in 1..Len(store)}

\* the ids of the credentials an await of a call is to remove: the one
\* delete_api_key names, those of the user delete_user names
Revokes(call) ==
    CASE call.op = "delete_api_key" /\ call.pc = "delete_api_key" -> {call.api_key_id}
      [] call.op = "delete_user" /\ call.pc = "delete_user_api_keys" ->
            {api_keys[i].id : i \in {k \in 1..Len(api_keys) :
                                        api_keys[k].user_id = call.user_id}}
      [] OTHER -> {}

\* the await of a service call takes effect: the collections are as it
\* leaves them, the credentials it was to remove are revoked and the
\* credential it returned is issued; `call` is the call before the await
Takes(call, step) ==
    /\ api_keys' = step.db.api_keys
    /\ users' = step.db.users
    /\ images' = step.db.images
    /\ revoked' = revoked \cup Revokes(call)
    /\ issued' = IF step.call.op = "create_api_key" /\ step.outcome # None
                 THEN Append(issued, step.outcome.value)
                 ELSE issued

\* the call of this client starts, or goes on from the await it is at
Serve(call) ==
    LET step == Service(call, db)
    IN  /\ request' = step.call
        /\ response' = step.outcome
        /\ Takes(call, step)
        /\ UNCHANGED other

\* a call of this client starts when it has no call in progress
Idle == request = None

\* a call of create_api_key; the secret is one never returned before
CreateApiKey ==
    /\ Idle
    /\ Len(issued) < MaxIssued
    /\ \E role \in Roles, o \in Owners, api_key_value \in SecretPool \ IssuedSecrets,
          salt \in Salts, now \in Timestamps :
          Serve(CreateApiKeyCall("Development API Key", role, o[1], o[2], FreshKeyId,
                                 api_key_value, salt, now))

\* a call of create_api_key in SpecFlood: every secret has the same prefix
FloodCreateApiKey ==
    /\ Idle
    /\ Len(issued) < PREFIX_LOOKUP_LIMIT + FloodExtra
    /\ Serve(CreateApiKeyCall("Development API Key", "user", "U1", "T1", FreshKeyId,
                              FloodSecret(Len(issued) + 1), "5a17",
                              "2025-05-01T12:00:00Z"))

\* a call of delete_api_key, up to its second await or to its 404
DeleteApiKey ==
    /\ Idle
    /\ \E api_key_id \in IssuedIds \cup {"key-0"} : Serve(DeleteApiKeyCall(api_key_id))

\* APIKeyManagementService.get_api_key_by_id
GetApiKeyById ==
    /\ Idle
    /\ \E api_key_id \in IssuedIds \cup {"key-0"} :
          LET api_key == get_api_key_by_id(api_keys, api_key_id)
              trace == << Lookup("get_api_key_by_id", api_key_id) >>
          IN  /\ request' = [op |-> "get_api_key_by_id", api_key_id |-> api_key_id]
              /\ response' = IF api_key = None
                             THEN Raise(404, "API key not found", trace)
                             ELSE Return(api_key, trace)
    /\ UNCHANGED << api_keys, users, images, issued, revoked, other >>

\* the users create_user is called for, each with the id uuid4 returns
NewUsers == {UserModel(u, t) : u \in UserIds, t \in TeamIds}

\* a call of create_user, up to its second await or to its 404; the id is
\* one no stored user has
CreateUser ==
    /\ Idle
    /\ \E user \in NewUsers :
          /\ get_user_by_id(users, user.id) = None
          /\ \E team \in {None, [id |-> user.team_id]} :
                Serve(CreateUserCall(user.username, user.email, user.team_id, team,
                                     user.id))

\* a call of delete_user, up to its second await or to its 404
DeleteUser ==
    /\ Idle
    /\ \E user_id \in UserIds : Serve(DeleteUserCall(user_id))

\* a call of create_api_key for a user of the owners, by the route
\* create_team_api_key with its default role; the user is not looked up
UserCreateApiKey ==
    /\ Idle
    /\ Len(issued) < MaxIssued
    /\ \E o \in Owners, api_key_value \in SecretPool \ IssuedSecrets :
          Serve(CreateApiKeyCall("Development API Key", "user", o[1], o[2], FreshKeyId,
                                 api_key_value, "5a17", "2025-05-01T12:00:00Z"))

\* the service call of this client that is suspended at an await goes on
\* from it
ServiceAwait ==
    /\ request # None
    /\ response = None
    /\ request.op \in ServiceOps
    /\ Serve(request)

\* the values of secrets.token_urlsafe in the calls of the other client: one
\* secret, that shares its first KEY_PREFIX_LENGTH characters with the
\* secret of the credential K1
OtherSecrets == {"sk_AbCdEfGh99999"}

\* the calls another client makes: a new user, image or credential has an
\* id no stored one has
OtherCalls ==
    {CreateApiKeyCall("Development API Key", "user", o[1], o[2], FreshKeyId,
                      api_key_value, "5a17", "2025-05-01T12:00:00Z") :
        o \in Owners,
        api_key_value \in IF Len(issued) < MaxIssued THEN OtherSecrets \ IssuedSecrets ELSE {}}
    \cup {DeleteApiKeyCall(api_key_id) : api_key_id \in Ids(api_keys)}
    \cup {CreateUserCall(user.username, user.email, user.team_id, [id |-> user.team_id],
                          user.id) :
            user \in {u \in NewUsers : /\ u.id \in OtherUserIds
                                       /\ get_user_by_id(users, u.id) = None}}
    \cup {DeleteUserCall(user_id) : user_id \in OtherUserIds}
    \cup {UploadTeamImageCall(o[1], o[2], [id |-> o[2]], image_format, image_id) :
            o \in ResourceOwners, image_format \in {NoString, "png"},
            image_id \in {m \in ImageIds : get_image_by_id(images, m) = None}}
    \cup {DeleteImageCall(image_id) : image_id \in ImageIds}
    \cup {DeleteTeamImageCall(team_id, image_id, [id |-> team_id]) :
            team_id \in TeamIds, image_id \in ImageIds}
    \cup {DeleteTeamImageCall(team_id, image_id, None) :
            team_id \in TeamIds, image_id \in ImageIds}
    \cup {DeleteTeamCall(team_id, [id |-> team_id]) : team_id \in TeamIds}

\* another client's call starts, and runs to its second await or to its
\* outcome; the call of this client is not started or is suspended at an
\* await
OtherCall(ops) ==
    /\ response = None
    /\ other = None
    /\ \E call \in OtherCalls :
          /\ call.op \in ops
          /\ LET step == Service(call, db)
             IN  /\ other' = [call |-> step.call, outcome |-> step.outcome]
                 /\ Takes(call, step)
    /\ UNCHANGED << request, response >>

\* the other client's call goes on from the await it is at
OtherAwait ==
    /\ response = None
    /\ other # None
    /\ other.outcome = None
    /\ LET step == Service(other.call, db)
       IN  /\ other' = [call |-> step.call, outcome |-> step.outcome]
           /\ Takes(other.call, step)
    /\ UNCHANGED << request, response >>

\* the other client's call returns to its caller
OtherReturn ==
    /\ response = None
    /\ other # None
    /\ other.outcome # None
    /\ other' = None
    /\ UNCHANGED << api_keys, users, images, issued, revoked, request, response >>

\* a call of authenticate_api_key that uses the credential up: a successful
\* authentication removes the matched document from the store
AuthenticateAndConsume(api_key) ==
    /\ Idle
    /\ \E now \in Timestamps :
          LET outcome == authenticate_api_key(api_key, api_keys, now)
          IN  /\ response' = outcome
              /\ api_keys' = IF outcome.kind = "return" /\ outcome.value.role # "root"
                             THEN delete_one(api_keys, outcome.value.id)
                             ELSE api_keys
    /\ request' = [op |-> "authenticate_api_key", api_key |-> api_key]
    /\ UNCHANGED << users, images, issued, revoked, other >>

\* a call of authenticate_api_key that records the use: a successful
\* authentication rewrites the matched document with the time of the call
AuthenticateAndStamp(api_key) ==
    /\ Idle
    /\ \E now \in Timestamps :
          LET outcome == authenticate_api_key(api_key, api_keys, now)
          IN  /\ response' = outcome
              /\ api_keys' = IF outcome.kind = "return" /\ outcome.value.role # "root"
                             THEN [i \in 1..Len(api_keys) |->
                                     IF api_keys[i].id = outcome.value.id
                                     THEN [api_keys[i] EXCEPT !.created_at = "used " \o now]
                                     ELSE api_keys[i]]
                             ELSE api_keys
    /\ request' = [op |-> "authenticate_api_key", api_key |-> api_key]
    /\ UNCHANGED << users, images, issued, revoked, other >>

\* a call of authenticate_api_key with the presented key: its one await is
\* the read of the credentials of the prefix
Authenticate(api_key) ==
    /\ Idle
    /\ \E now \in Timestamps :
          response' = authenticate_api_key(api_key, api_keys, now)
    /\ request' = [op |-> "authenticate_api_key", api_key |-> api_key]
    /\ UNCHANGED << api_keys, users, images, issued, revoked, other >>

AuthenticateApiKey == \E api_key \in PresentedKeys : Authenticate(api_key)

\* what a caller observes of an authentication: the principal's id, role,
\* user and team, or the failure's status and detail
Outcome(r) ==
    IF r.kind = "return"
    THEN [kind |-> "return", id |-> r.value.id, role |-> r.value.role,
          user_id |-> r.value.user_id, team_id |-> r.value.team_id]
    ELSE [kind |-> "raise", status_code |-> r.status_code, detail |-> r.detail]

\* the caller that has the outcome of its authenticate_api_key call calls
\* again with the same key: the call runs to its read of the credentials of
\* the prefix and is suspended there, or to its outcome when it makes no
\* read; `before` is the outcome of the earlier call and `store` the
\* collection that call read
AuthenticateAgain ==
    /\ request # None
    /\ response # None
    /\ request.op = "authenticate_api_key"
    /\ \E now \in Timestamps :
          LET outcome == authenticate_api_key(request.api_key, api_keys, now)
          IN  response' = IF outcome.trace = << >> THEN outcome ELSE None
    /\ request' = [op |-> "authenticate_api_key", api_key |-> request.api_key,
                   before |-> Outcome(response), store |-> api_keys]
    /\ UNCHANGED << api_keys, users, images, issued, revoked, other >>

\* the read of the suspended authenticate_api_key call runs on the
\* collection as it is now, and the call comes to its outcome
AuthenticateAwait ==
    /\ request # None
    /\ response = None
    /\ request.op = "authenticate_api_key"
    /\ \E now \in Timestamps :
          response' = authenticate_api_key(request.api_key, api_keys, now)
    /\ UNCHANGED << api_keys, users, images, issued, revoked, request, other >>

\* in SpecFlood the first and the latest secret issued are presented
FloodAuthenticateApiKey ==
    /\ issued # << >>
    /\ \E n \in {1, Len(issued)} : Authenticate(FloodSecret(n))

\* the awaits that suspend a call of the engines and of the middlewares:
\* the repository reads and the call of the next layer
IsAwait(t) == IsLookup(t) \/ t.call \in {"call_next", "response"}
Awaits(trace) == SelectSeq(trace, IsAwait)

\* the database a call has seen, each collection as it was when the call
\* read it, once the repository read `call` has run on the database as it
\* is now
ReadNow(seen, call) ==
    CASE call = "get_user_by_id" -> [seen EXCEPT !.users = users]
      [] call = "get_api_key_by_id" -> [seen EXCEPT !.api_keys = api_keys]
      [] call = "get_image_by_id" -> [seen EXCEPT !.images = images]
      [] call = "get_api_keys_by_prefix" -> [seen EXCEPT !.api_keys_by_prefix = api_keys]
      [] OTHER -> seen

\* A call of an engine or of a middleware is a record of its arguments, of
\* the database it has seen and of the number of awaits it has been
\* through. Outcome(call, seen) is what the call comes to on the database
\* it has seen, with the awaits it makes in its trace; an await that is
\* still to come has read nothing yet.

\* the call starts and runs through its first await, if it has one, on the
\* database as it is now; `outcome` is what it comes to on that database.
\* The other client's call may be suspended at any of its awaits meanwhile.
Receive(received, outcome) ==
    LET awaits == Len(Awaits(outcome.trace))
    IN  /\ request' = [received EXCEPT !.awaited = Min(awaits, 1)]
        /\ response' = IF awaits <= 1 THEN outcome ELSE None
        /\ UNCHANGED << api_keys, users, images, issued, revoked, other >>

\* the database the suspended call has seen once the await it is suspended
\* at has run on the database as it is now; `outcome` is what the call
\* comes to on the database it has seen so far
Reads(outcome) ==
    ReadNow(request.seen, Awaits(outcome.trace)[request.awaited + 1].call)

\* the call goes on from the await it is suspended at; `seen` is the
\* database it has seen with that await, and `outcome` what it comes to on it
Resume(seen, outcome) ==
    /\ request' = [request EXCEPT !.seen = seen, !.awaited = @ + 1]
    /\ response' = IF Len(Awaits(outcome.trace)) <= request.awaited + 1
                   THEN outcome
                   ELSE None
    /\ UNCHANGED << api_keys, users, images, issued, revoked, other >>

\* authorize_request on the database the call has seen
AuthorizeOutcome(call, seen) ==
    authorize_request(call.method, call.path, call.api_key_info, call.path_params, seen)

\* a request through AuthorizationMiddleware.dispatch: the path parameters
\* are those extracted from the path; the call of authorize_request runs
\* through its first repository read
AuthorizeRequest ==
    /\ Idle
    /\ \E method \in Methods, path \in Paths, api_key_info \in Principals :
          LET received ==
                [op |-> "authorize_request", method |-> method, path |-> path,
                 api_key_info |-> api_key_info,
                 path_params |-> extract_path_parameters(path),
                 seen |-> db, awaited |-> 0]
          IN  Receive(received, AuthorizeOutcome(received, db))

\* the call of authorize_request goes on from the repository read it is
\* suspended at
AuthorizeRequestAwait ==
    /\ request # None
    /\ response = None
    /\ request.op = "authorize_request"
    /\ \E seen \in {Reads(AuthorizeOutcome(request, request.seen))} :
          Resume(seen, AuthorizeOutcome(request, seen))

\* the call returns its outcome to its caller
Complete ==
    /\ request # None
    /\ response # None
    /\ request' = None
    /\ response' = None
    /\ UNCHANGED << api_keys, users, images, issued, revoked, other >>

-----------------------------------------------------------------------------
(* Specifications *)

\* the credential store from empty, and authentication against it
Init ==
    /\ api_keys = << >>
    /\ users = {}
    /\ images = {}
    /\ issued = << >>
    /\ revoked = {}
    /\ Idle
    /\ response = None
    /\ other = None

Next ==
    \/ CreateApiKey
    \/ DeleteApiKey
    \/ ServiceAwait
    \/ GetApiKeyById
    \/ AuthenticateApiKey
    \/ AuthenticateAgain
    \/ AuthenticateAwait
    \/ OtherCall({"create_api_key", "delete_api_key"})
    \/ OtherAwait
    \/ OtherReturn
    \/ Complete

Spec == Init /\ [][Next]_vars

\* authorization of requests against the database contents of the worlds
InitAuthz ==
    /\ api_keys \in KeyWorlds
    /\ users \in UserWorlds
    /\ images \in ImageWorlds
    /\ issued = << >>
    /\ revoked = {}
    /\ Idle
    /\ response = None
    /\ other = None

\* the calls other clients make while requests are authorized: the
\* deletion of a credential, of a user with its credentials, and of an image
DeleteOps == {"delete_api_key", "delete_user", "delete_image"}

NextAuthz ==
    \/ AuthorizeRequest
    \/ AuthorizeRequestAwait
    \/ OtherCall(DeleteOps)
    \/ OtherAwait
    \/ OtherReturn
    \/ Complete

SpecAuthz == InitAuthz /\ [][NextAuthz]_vars

\* more credentials of one prefix than the prefix lookup returns
NextFlood ==
    \/ FloodCreateApiKey
    \/ FloodAuthenticateApiKey
    \/ Complete

SpecFlood == Init /\ [][NextFlood]_vars

\* users with credentials, and their deletion: the users of the owners
\* exist at the start
InitUsers ==
    /\ api_keys = << >>
    /\ users = {UserModel(o[1], o[2]) : o \in Owners}
    /\ images = {}
    /\ issued = << >>
    /\ revoked = {}
    /\ Idle
    /\ response = None
    /\ other = None

NextUsers ==
    \/ UserCreateApiKey
    \/ CreateUser
    \/ DeleteUser
    \/ ServiceAwait
    \/ AuthenticateApiKey
    \/ OtherCall({"create_api_key", "delete_api_key", "delete_user"})
    \/ OtherAwait
    \/ OtherReturn
    \/ Complete

SpecUsers == InitUsers /\ [][NextUsers]_vars

-----------------------------------------------------------------------------
(* Properties of the authorization engine, checked under SpecAuthz *)

\* an authorize_request call has been made and has its outcome
Authorized == request # None /\ response # None /\ request.op = "authorize_request"

Allowed == response.kind = "return" /\ response.value = TRUE
Denied(status_code, detail) ==
    /\ response.kind = "raise"
    /\ response.status_code = status_code
    /\ response.detail = detail

OwnershipLookups ==
    {i \in 1..Len(response.trace) :
        response.trace[i].call \in {"get_user_by_id", "get_api_key_by_id", "get_image_by_id"}}

CrossTeamDetail == "Access denied: You can only access resources within your team"
NoRuleDetail == "Access denied: No permission rule found"
InsufficientDetail == "Access denied: Insufficient permissions"
NotOwnImageDetail == "Access denied: You can only delete your own images"

\* the rule table has a rule for the request and the principal's role
\* satisfies its minimum role
RoleGatePassed ==
    LET matched == _find_matching_pattern(request.method, request.path)
    IN  /\ matched # NoString
        /\ _is_role_authorized(request.api_key_info.role, RuleRole(request.method, matched))

\* C1: a request of a root principal is allowed whatever the method, path
\* and path parameters, and the call consults neither the rule table nor
\* any collaborator
C1_RootAllowedWithoutLookups ==
    (Authorized /\ request.api_key_info.role = "root")
        => (Allowed /\ response.trace = << >>)

\* C1 witness: root was allowed a PATCH, a method with no rules at all, on
\* a path naming a team, a user and an image that is not in the database
C1_Witness ==
    /\ Authorized
    /\ request.api_key_info.role = "root"
    /\ request.method = "PATCH"
    /\ request.path = "teams/T2/users/U2/images/I1"
    /\ request.path_params =
            [k \in {"team_id", "user_id", "image_id"} |->
                IF k = "team_id" THEN "T2" ELSE IF k = "user_id" THEN "U2" ELSE "I1"]
    /\ request.seen.images = {}
    /\ Allowed

CrossTeamRequest ==
    /\ Authorized
    /\ request.api_key_info.role # "root"
    /\ "team_id" \in DOMAIN request.path_params
    /\ request.path_params["team_id"] # request.api_key_info.team_id

\* C2 as stated: every non-root request naming another team than the
\* principal's fails with the cross-team reason, before any ownership lookup
C2_Original ==
    CrossTeamRequest => (Denied(403, CrossTeamDetail) /\ OwnershipLookups = {})

\* C2 amended: every non-root request naming another team than the
\* principal's fails with 403 before any ownership lookup; the reason is the
\* cross-team one exactly when a rule matches and the role satisfies it,
\* otherwise the failure of rule resolution or of the role check comes first
C2_CrossTeamAfterRoleGate ==
    CrossTeamRequest =>
        /\ response.kind = "raise"
        /\ response.status_code = 403
        /\ OwnershipLookups = {}
        /\ RoleGatePassed => response.detail = CrossTeamDetail
        /\ ~ RoleGatePassed => response.detail \in {NoRuleDetail, InsufficientDetail}

\* C2 witness: an admin named a user of another team's path and was refused
\* for the team, with no lookup of that user
C2_Witness ==
    /\ CrossTeamRequest
    /\ request.api_key_info.role = "admin"
    /\ "user_id" \in DOMAIN request.path_params
    /\ RoleGatePassed
    /\ Denied(403, CrossTeamDetail)
    /\ OwnershipLookups = {}

\* the image the request names, as stored
RequestImage == get_image_by_id(request.seen.images, request.path_params["image_id"])

\* C8: a user-role DELETE that names an image of the principal's team
\* uploaded by someone else fails with the not-own-image reason; stated for
\* the requests that pass the team, user and API key gates (the path names
\* the principal's team, no other user and no API key)
C8_UserDeleteOthersImage ==
    ( /\ Authorized
      /\ request.method = "DELETE"
      /\ request.api_key_info.role = "user"
      /\ "image_id" \in DOMAIN request.path_params
      /\ "team_id" \in DOMAIN request.path_params
      /\ request.path_params["team_id"] = request.api_key_info.team_id
      /\ "user_id" \in DOMAIN request.path_params
            => request.path_params["user_id"] = request.api_key_info.user_id
      /\ "api_key_id" \notin DOMAIN request.path_params
      /\ RequestImage # None
      /\ RequestImage.team_id = request.api_key_info.team_id
      /\ RequestImage.user_id # request.api_key_info.user_id )
        => Denied(403, NotOwnImageDetail)

\* C9: DELETE teams/{team_id}/images/{image_id} is allowed for a user of
\* the team who uploaded the image, and for an admin of the team whoever of
\* the team uploaded it
C9_DeleteTeamImageAllowed ==
    ( /\ Authorized
      /\ request.method = "DELETE"
      /\ DOMAIN request.path_params = {"team_id", "image_id"}
      /\ request.path = "teams/" \o request.path_params["team_id"]
                          \o "/images/" \o request.path_params["image_id"]
      /\ request.path_params["team_id"] = request.api_key_info.team_id
      /\ RequestImage # None
      /\ RequestImage.team_id = request.api_key_info.team_id
      /\ \/ request.api_key_info.role = "admin"
         \/ /\ request.api_key_info.role = "user"
            /\ RequestImage.user_id = request.api_key_info.user_id )
        => Allowed

\* C10: an admin is allowed POST teams/{team_id}/users/{user_id}/api-keys
\* for a user of the admin's own team
C10_AdminCreatesTeamUserKey ==
    ( /\ Authorized
      /\ request.method = "POST"
      /\ request.api_key_info.role = "admin"
      /\ DOMAIN request.path_params = {"team_id", "user_id"}
      /\ request.path = "teams/" \o request.path_params["team_id"]
                          \o "/users/" \o request.path_params["user_id"] \o "/api-keys"
      /\ request.path_params["team_id"] = request.api_key_info.team_id
      /\ get_user_by_id(request.seen.users, request.path_params["user_id"]) # None
      /\ get_user_by_id(request.seen.users, request.path_params["user_id"]).team_id
            = request.api_key_info.team_id )
        => Allowed

-----------------------------------------------------------------------------
(* Properties of the credential store and of authentication *)

\* an authenticate_api_key call has been made and has its outcome
Authenticated ==
    request # None /\ response # None /\ request.op = "authenticate_api_key"

\* the stored credentials whose hash the presented key reproduces
HashMatches(api_key) ==
    {i \in 1..Len(api_keys) :
        computed_hash(api_key, api_keys[i].key_salt, PBKDF2_ITERATIONS) = api_keys[i].key_hash}

\* the credentials create_api_key issued that are still stored
StoredIssued == {i \in 1..Len(issued) : get_api_key_by_id(api_keys, issued[i].id) # None}

\* C3: the secret of every issued credential that is still stored
\* authenticates as that credential, with its role, user and team,
\* whatever else the store holds
C3_IssuedSecretAuthenticates ==
    Authenticated =>
        \A i \in StoredIssued :
            issued[i].key = request.api_key =>
                /\ response.kind = "return"
                /\ response.value.id = issued[i].id
                /\ response.value.role = issued[i].role
                /\ response.value.user_id = issued[i].user_id
                /\ response.value.team_id = issued[i].team_id

\* C4 as stated: a key that is not the root key and matches no stored hash
\* is refused with 401 'Invalid API key'
C4_Original ==
    (Authenticated /\ request.api_key # ROOT_API_KEY /\ HashMatches(request.api_key) = {})
        => Denied(401, "Invalid API key")

\* C4 amended: a key that is not the root key and matches no stored hash is
\* refused with 401; the detail is 'Invalid API key' for every non-empty
\* key and 'API key is missing' for the empty one
C4_UnmatchedKeyRefused ==
    (Authenticated /\ request.api_key # ROOT_API_KEY /\ HashMatches(request.api_key) = {})
        => Denied(401, IF request.api_key = NoString
                       THEN "API key is missing" ELSE "Invalid API key")

\* C4 witness: a key longer than the block of HMAC, that begins with the
\* secret of a stored credential, was refused after the prefix lookup found
\* that credential
C4_Witness ==
    /\ Authenticated
    /\ request.api_key = LongKey
    /\ \E j \in StoredIssued : issued[j].key = Prefix(LongKey, Len(issued[j].key))
    /\ \E i \in 1..Len(api_keys) :
          /\ api_keys[i].key_prefix = Prefix(request.api_key, KEY_PREFIX_LENGTH)
          /\ api_keys[i].key_hash # computed_hash(request.api_key, api_keys[i].key_salt,
                                                  PBKDF2_ITERATIONS)
    /\ HashMatches(request.api_key) = {}
    /\ Denied(401, "Invalid API key")
    /\ response.trace # << >>

\* C5: the root key authenticates as the root principal whatever the store
\* holds, and the store is not queried
C5_RootKeyAuthenticates ==
    (Authenticated /\ request.api_key = ROOT_API_KEY) =>
        /\ response.kind = "return"
        /\ response.value.id = "root"
        /\ response.value.role = "root"
        /\ response.value.user_id = "root"
        /\ response.value.team_id = ""
        /\ response.trace = << >>

\* C5 witness: the root key was presented while credentials were stored
C5_Witness ==
    /\ Authenticated
    /\ request.api_key = ROOT_API_KEY
    /\ Len(api_keys) = MaxIssued
    /\ response.kind = "return"
    /\ response.value.role = "root"

APIKeyModelFields ==
    {"id", "name", "key_prefix", "key_hash", "key_salt", "role", "user_id", "team_id",
     "created_at"}

\* part in s: the string holds the other one
Contains(s, part) ==
    \E i \in 1..(Len(s) - Len(part) + 1) : SubSeq(s, i, i + Len(part) - 1) = part

\* no field of the document is or contains a secret that was issued
HoldsNoSecret(doc) ==
    \A f \in DOMAIN doc : \A secret \in IssuedSecrets : ~ Contains(doc[f], secret)

\* C6: no stored credential holds a raw secret: its fields are those of
\* APIKeyModel, its prefix is the first 8 characters of the secret it was
\* issued with and its hash the salted hash of that secret; every secret is
\* returned by one create_api_key call only, and what get_api_key_by_id and
\* authenticate_api_key return holds no secret
C6_RawSecretNeverStored ==
    /\ \A i \in 1..Len(api_keys) :
          /\ DOMAIN api_keys[i] = APIKeyModelFields
          /\ HoldsNoSecret(api_keys[i])
          /\ \E j \in 1..Len(issued) :
                /\ issued[j].id = api_keys[i].id
                /\ Len(api_keys[i].key_prefix) = 8
                /\ api_keys[i].key_prefix = SubSeq(issued[j].key, 1, 8)
                /\ api_keys[i].key_hash =
                      computed_hash(issued[j].key, api_keys[i].key_salt, MGMT_PBKDF2_ITERATIONS)
    /\ \A i, j \in 1..Len(issued) : issued[i].key = issued[j].key => i = j
    /\ ( /\ request # None
         /\ response # None
         /\ request.op \in {"get_api_key_by_id", "authenticate_api_key"}
         /\ response.kind = "return" )
          => (DOMAIN response.value = APIKeyModelFields /\ HoldsNoSecret(response.value))

\* C6 witness: a credential was read back by id after it was issued
C6_Witness ==
    /\ request # None
    /\ request.op = "get_api_key_by_id"
    /\ response.kind = "return"
    /\ \E j \in 1..Len(issued) : issued[j].id = response.value.id
    /\ Len(api_keys) = MaxIssued

\* C7: the secret of a credential that delete_api_key removed is refused
\* with 401 by every later authentication, and a delete_api_key step leaves
\* every other credential authenticating as before
C7_RevokedKeyRefused ==
    Authenticated =>
        \A i \in 1..Len(issued) :
            (issued[i].id \in revoked /\ issued[i].key = request.api_key)
                => (response.kind = "raise" /\ response.status_code = 401)

C7_OthersKeepAuthenticating ==
    \A i \in 1..Len(issued) :
        ( /\ issued[i].id \notin revoked'
          /\ revoked' # revoked
          /\ \E now \in Timestamps :
                authenticate_api_key(issued[i].key, api_keys, now).kind = "return" )
            => \A now \in Timestamps :
                  /\ authenticate_api_key(issued[i].key, api_keys', now).kind = "return"
                  /\ authenticate_api_key(issued[i].key, api_keys', now).value.id = issued[i].id

C7_DeleteRevokesOnlyThatKey ==
    [] C7_RevokedKeyRefused /\ [][C7_OthersKeepAuthenticating]_vars

\* C7 witness: after one of two credentials of the same user and team was
\* deleted, the other one authenticated
C7_Witness ==
    /\ Authenticated
    /\ Len(issued) = 2
    /\ issued[1].user_id = issued[2].user_id
    /\ issued[1].team_id = issued[2].team_id
    /\ \E i, j \in 1..2 :
          /\ issued[i].id \in revoked
          /\ issued[j].id \notin revoked
          /\ request.api_key = issued[j].key
          /\ response.kind = "return"
          /\ response.value.id = issued[j].id

-----------------------------------------------------------------------------
(* Further properties of the authorization engine, checked under SpecAuthz *)

UserOutsideTeamDetail == "Access denied: User does not belong to your team"

\* the resource the last collaborator lookup of the call asked for is not
\* in the database
LastLookupFoundNothing ==
    /\ response.trace # << >>
    /\ LET last == response.trace[Len(response.trace)]
       IN  \/ last.call = "get_user_by_id" /\ get_user_by_id(request.seen.users, last.arg) = None
           \/ last.call = "get_api_key_by_id" /\ get_api_key_by_id(request.seen.api_keys, last.arg) = None
           \/ last.call = "get_image_by_id" /\ get_image_by_id(request.seen.images, last.arg) = None

\* C11: an ownership check whose collaborator fetch finds no such resource
\* (user, API key or image) ends the call with 404, never with 403
C11_MissingResourceIsNotFound ==
    (Authorized /\ LastLookupFoundNothing)
        => (response.kind = "raise" /\ response.status_code = 404)

\* the order root > admin > user, as ranks; a role outside it has rank 0
RoleRank(role) ==
    CASE role = "root" -> 3
      [] role = "admin" -> 2
      [] role = "user" -> 1
      [] OTHER -> 0
Satisfies(role, minimum_role) ==
    RoleRank(role) > 0 /\ RoleRank(minimum_role) > 0
        /\ RoleRank(role) >= RoleRank(minimum_role)

\* the rule the table has for the request, when it has one
RequestRule == _find_matching_pattern(request.method, request.path)

\* C12: a role satisfies a minimum role exactly when it is equal or higher
\* in root > admin > user, a role outside the order satisfies none, and a
\* non-root request with a rule is refused with 403 'Insufficient
\* permissions' exactly when the principal's role does not satisfy the rule
C12_RoleOrder ==
    /\ \A role \in PrincipalRoles \cup {"root"}, minimum_role \in {"root", "admin", "user"} :
          _is_role_authorized(role, minimum_role) <=> Satisfies(role, minimum_role)
    /\ (Authorized /\ request.api_key_info.role # "root" /\ RequestRule # NoString)
          => (Denied(403, InsufficientDetail)
                <=> ~ Satisfies(request.api_key_info.role,
                                RuleRole(request.method, RequestRule)))

\* C12 witness: an admin passed the role gate of a rule whose minimum role
\* is user and was allowed
C12_Witness ==
    /\ Authorized
    /\ request.api_key_info.role = "admin"
    /\ RequestRule # NoString
    /\ RuleRole(request.method, RequestRule) = "user"
    /\ Allowed

\* the patterns of a method, the segments of a path or pattern, and the
\* patterns that qualify for a path: as many segments as the path, and
\* every literal segment equal to the path's segment at its position
MethodPatterns(method) ==
    IF method \in DOMAIN PERMISSION_RULES
    THEN {PERMISSION_RULES[method][i][1] : i \in 1..Len(PERMISSION_RULES[method])}
    ELSE {}
LiteralPositions(pattern) ==
    LET segments == Split(pattern)
    IN  {i \in 1..Len(segments) : ~ IsPlaceholder(segments[i])}
Qualifies(pattern, path) ==
    LET segments == Split(pattern)
        path_segments == Split(path)
    IN  /\ Len(segments) = Len(path_segments)
        /\ \A i \in 1..Len(segments) :
              IsPlaceholder(segments[i]) \/ segments[i] = path_segments[i]
Candidates(method, path) == {p \in MethodPatterns(method) : Qualifies(p, path)}

\* C13: a non-root request whose method has no rules, or whose path
\* qualifies for no pattern of the method, is refused with 403 'No
\* permission rule found' and no collaborator lookup is made
C13_DefaultDeny ==
    ( /\ Authorized
      /\ request.api_key_info.role # "root"
      /\ Candidates(request.method, request.path) = {} )
        => (Denied(403, NoRuleDetail) /\ OwnershipLookups = {})

\* C13 witness: an admin's PATCH, a method without rules, on an image path
\* of the admin's own team was refused for want of a rule
C13_Witness ==
    /\ Authorized
    /\ request.api_key_info.role = "admin"
    /\ request.method = "PATCH"
    /\ request.path = "teams/T1/images/I1"
    /\ request.api_key_info.team_id = "T1"
    /\ request.seen.images # {}
    /\ Denied(403, NoRuleDetail)

\* C14: the matcher returns a qualifying pattern with the greatest number
\* of literal segments, and none when no pattern qualifies; of
\* teams/{team_id} and teams/{team_id}/images/{image_id}, the path
\* teams/t1/images/i1 matches only the second
C14_MostSpecificMatch ==
    Authorized =>
        /\ LET matched == _find_matching_pattern(request.method, request.path)
               candidates == Candidates(request.method, request.path)
           IN  IF candidates = {} THEN matched = NoString
               ELSE /\ matched \in candidates
                    /\ LET literals == Cardinality(LiteralPositions(matched))
                       IN  \A q \in candidates :
                               literals >= Cardinality(LiteralPositions(q))
        /\ request.method = "GET" =>
              /\ {"teams/{team_id}", "teams/{team_id}/images/{image_id}"}
                    \subseteq MethodPatterns("GET")
              /\ ~ PatternMatches("teams/{team_id}", "teams/t1/images/i1")
              /\ _find_matching_pattern("GET", "teams/t1/images/i1")
                    = "teams/{team_id}/images/{image_id}"

\* C14 witness: a user's GET of an image of the team went through the
\* matcher and was allowed under the four-segment rule
C14_Witness ==
    /\ Authorized
    /\ request.api_key_info.role = "user"
    /\ request.method = "GET"
    /\ request.path = "teams/T1/images/I1"
    /\ response.trace[1] = Lookup("_find_matching_pattern", "teams/T1/images/I1")
    /\ Candidates("GET", request.path) = {"teams/{team_id}/images/{image_id}"}
    /\ Allowed

\* the user the request names, as stored
RequestUser == get_user_by_id(request.seen.users, request.path_params["user_id"])

\* an admin names a stored user on a path of the admin's own team
AdminNamesStoredUser ==
    /\ Authorized
    /\ request.api_key_info.role = "admin"
    /\ "user_id" \in DOMAIN request.path_params
    /\ "team_id" \in DOMAIN request.path_params
    /\ request.path_params["team_id"] = request.api_key_info.team_id
    /\ RequestUser # None

\* the call made exactly one ownership lookup, get_user_by_id of the user
\* the path names
OnlyUserLookup ==
    /\ Cardinality(OwnershipLookups) = 1
    /\ \A i \in OwnershipLookups :
          response.trace[i] = Lookup("get_user_by_id", request.path_params["user_id"])

\* the claim as first stated: whatever the method and the rest of the path
C15_Original ==
    AdminNamesStoredUser =>
        IF RequestUser.team_id # request.api_key_info.team_id
        THEN Denied(403, UserOutsideTeamDetail) /\ OnlyUserLookup
        ELSE Allowed

\* C15: for an admin's request that passes the rule and role gates and
\* names a stored user on a path of the admin's team: a user of another
\* team gets 403 'User does not belong to your team' after exactly one
\* get_user_by_id lookup; a user of the admin's team passes the user check,
\* and the request is allowed when the path names no API key and no image
C15_AdminUserTeamCheck ==
    (AdminNamesStoredUser /\ RoleGatePassed) =>
        IF RequestUser.team_id # request.api_key_info.team_id
        THEN Denied(403, UserOutsideTeamDetail) /\ OnlyUserLookup
        ELSE /\ ~ Denied(403, UserOutsideTeamDetail)
             /\ (DOMAIN request.path_params = {"team_id", "user_id"})
                    => (Allowed /\ OnlyUserLookup)

\* C15 witness: an admin of T1 asked for teams/T1/users/U2 while U2 is a
\* user of T2, and was refused after the one lookup
C15_Witness ==
    /\ Authorized
    /\ request.api_key_info.role = "admin"
    /\ request.api_key_info.team_id = "T1"
    /\ request.method = "GET"
    /\ request.path = "teams/T1/users/U2"
    /\ RequestUser = UserModel("U2", "T2")
    /\ Denied(403, UserOutsideTeamDetail)
    /\ OnlyUserLookup

-----------------------------------------------------------------------------
(* Further properties of authentication, checked under Spec *)

\* the call queried the credential store
StoreQueried ==
    \E i \in 1..Len(response.trace) : response.trace[i].call = "get_api_keys_by_prefix"

\* C16: an absent or empty key is refused with 401 'API key is missing', a
\* non-empty key other than the root key that is shorter than the prefix
\* length with 401 'Invalid API key', and neither call queries the store
C16_MissingAndShortKeys ==
    Authenticated =>
        /\ request.api_key = NoString
              => (Denied(401, "API key is missing") /\ ~ StoreQueried)
        /\ ( /\ request.api_key # NoString
             /\ request.api_key # ROOT_API_KEY
             /\ Len(request.api_key) < 8 )
              => (Denied(401, "Invalid API key") /\ ~ StoreQueried)

\* C16 witness: the three-character key "sk_" was refused as invalid while
\* the store held credentials
C16_Witness ==
    /\ Authenticated
    /\ request.api_key = "sk_"
    /\ Len(api_keys) = MaxIssued
    /\ Denied(401, "Invalid API key")
    /\ response.trace = << >>

\* a second authenticate_api_key call with the same key has its outcome, and
\* the store is as it was when the first call read it
Repeated ==
    Authenticated /\ "before" \in DOMAIN request /\ request.store = api_keys

-----------------------------------------------------------------------------
(* The cascade of delete_user, checked under SpecUsers *)

\* a delete_user call has completed without raising
UserDeleted ==
    /\ request # None
    /\ request.op = "delete_user"
    /\ response # None
    /\ response.kind = "return"

\* the position of a collaborator call in the trace of the call, 0 if absent
TracePosition(call) ==
    IF \E i \in 1..Len(response.trace) : response.trace[i].call = call
    THEN CHOOSE i \in 1..Len(response.trace) : response.trace[i].call = call
    ELSE 0

\* C18: when delete_user(u) has completed, the store holds no credential of
\* u, the API keys were deleted before the user record, and every
\* credential issued to u that the store held is removed for good: its
\* secret is refused with 401 by every later authentication
C18_DeleteUserCascades ==
    /\ UserDeleted =>
          /\ \A i \in 1..Len(api_keys) : api_keys[i].user_id # request.user_id
          /\ get_user_by_id(users, request.user_id) = None
          /\ TracePosition("delete_user_api_keys") > 0
          /\ TracePosition("delete_user_api_keys") < TracePosition("delete_user")
          /\ \A i \in 1..Len(issued) :
                issued[i].user_id = request.user_id => issued[i].id \in revoked
    /\ Authenticated =>
          \A i \in 1..Len(issued) :
              (issued[i].id \in revoked /\ issued[i].key = request.api_key)
                  => Denied(401, "Invalid API key")

-----------------------------------------------------------------------------
(* AuthenticationMiddleware (middleware/authentication_middleware.py) *)

\* s.strip("/")
Strip(s) ==
    LET kept == {i \in 1..Len(s) : SubSeq(s, i, i) # "/"}
    IN  IF kept = {} THEN ""
        ELSE SubSeq(s, CHOOSE i \in kept : \A j \in kept : i <= j,
                       CHOOSE i \in kept : \A j \in kept : i >= j)

\* PERMISSION_RULES of the middleware module: per method, the patterns in
\* dict order, each with its list of allowed roles
MW_PERMISSION_RULES ==
    [ POST |-> << << "users", {"root", "admin"} >>,
                  << "teams", {"root"} >>,
                  << "api-keys", {"root", "admin"} >>,
                  << "images", {"root", "admin", "user"} >> >>,
      PUT |-> << << "users/{user_id}", {"root", "admin"} >>,
                 << "teams/{team_id}", {"root", "admin"} >>,
                 << "images/{image_id}", {"root", "admin", "user"} >> >>,
      GET |-> << << "users", {"root"} >>,
                 << "users/{user_id}", {"root", "admin", "user"} >>,
                 << "users/{user_id}/images", {"root", "admin", "user"} >>,
                 << "teams", {"root"} >>,
                 << "teams/{team_id}", {"root", "admin", "user"} >>,
                 << "teams/{team_id}/api-keys", {"root", "admin"} >>,
                 << "teams/{team_id}/api-keys/{api_key_id}", {"root", "admin", "user"} >>,
                 << "teams/{team_id}/users", {"root", "admin"} >>,
                 << "teams/{team_id}/users/{user_id}", {"root", "admin", "user"} >>,
                 << "teams/{team_id}/images", {"root", "admin", "user"} >>,
                 << "teams/{team_id}/images/{image_id}", {"root", "admin", "user"} >>,
                 << "api-keys", {"root"} >>,
                 << "api-keys/{api_key_id}", {"root", "admin", "user"} >>,
                 << "images", {"root"} >>,
                 << "images/{image_id}", {"root", "admin", "user"} >>,
                 << "audit_logs", {"root"} >> >>,
      DELETE |-> << << "users/{user_id}", {"root", "admin"} >>,
                    << "api-keys/{api_key_id}", {"root", "admin", "user"} >>,
                    << "teams/{team_id}", {"root"} >>,
                    << "teams/{team_id}/images/{image_id}", {"root", "admin", "user"} >> >> ]

\* AuthenticationMiddleware.extract_path_parameters: API key ids follow a
\* part named "api_keys"
RECURSIVE MW_ExtractFrom(_, _, _)
MW_ExtractFrom(path_parts, i, params) ==
    IF i > Len(path_parts) - 1 THEN params
    ELSE MW_ExtractFrom(path_parts, i + 1,
            IF path_parts[i] = "teams" THEN DictSet(params, "team_id", path_parts[i + 1])
            ELSE IF path_parts[i] = "users" THEN DictSet(params, "user_id", path_parts[i + 1])
            ELSE IF path_parts[i] = "images" THEN DictSet(params, "image_id", path_parts[i + 1])
            ELSE IF path_parts[i] = "api_keys" THEN DictSet(params, "api_key_id", path_parts[i + 1])
            ELSE params)
MW_extract_path_parameters(path) == MW_ExtractFrom(Split(path), 1, EmptyDict)

\* AuthenticationMiddleware._find_matching_pattern
MW_find_matching_pattern(method, path) ==
    IF method \notin DOMAIN MW_PERMISSION_RULES THEN NoString
    ELSE LET rules == MW_PERMISSION_RULES[method]
             all == [i \in 1..Len(rules) |-> rules[i][1]]
             matching_patterns == SelectSeq(all, LAMBDA p : PatternMatches(p, path))
         IN  IF matching_patterns = << >> THEN NoString
             ELSE MaxByStatic(matching_patterns)

\* PERMISSION_RULES[method][matched_pattern] of the middleware module
MW_AllowedRoles(method, pattern) ==
    LET rules == MW_PERMISSION_RULES[method]
        i == CHOOSE j \in 1..Len(rules) : rules[j][1] = pattern
    IN  rules[i][2]

\* the image check of AuthenticationMiddleware._verify_resource_ownership
MW_ImageCheck(api_key_info, path_params, image_store) ==
    IF "image_id" \in DOMAIN path_params
    THEN LET image == get_image_by_id(image_store, path_params["image_id"])
             trace == << Lookup("get_image_by_id", path_params["image_id"]) >>
         IN  IF image = None
             THEN Raise(404, "Image not found", trace)
             ELSE IF image.team_id # api_key_info.team_id
             THEN Raise(403, "Access denied: Image does not belong to your team", trace)
             ELSE Return(TRUE, trace)
    ELSE Return(TRUE, << >>)

\* AuthenticationMiddleware._verify_resource_ownership: the team, user and
\* API key checks read as those of the authorization service
MW_verify_resource_ownership(api_key_info, path_params, database) ==
    IF api_key_info.role = "root" THEN Return(TRUE, << >>)
    ELSE Then(TeamCheck(api_key_info, path_params),
         Then(UserCheck(api_key_info, path_params, database.users),
         Then(ApiKeyCheck(api_key_info, path_params, database.api_keys),
              MW_ImageCheck(api_key_info, path_params, database.images))))

\* AuthenticationMiddleware.authorize_request
MW_authorize_request(method, path, api_key_info, path_params, database) ==
    IF api_key_info.role = "root" THEN Return(TRUE, << >>)
    ELSE LET matched_pattern == MW_find_matching_pattern(method, path)
         IN  IF matched_pattern = NoString
             THEN Raise(403, "Access denied: No permission rule found", << >>)
             ELSE IF api_key_info.role \notin MW_AllowedRoles(method, matched_pattern)
             THEN Raise(403, "Access denied: Insufficient permissions", << >>)
             ELSE MW_verify_resource_ownership(api_key_info, path_params, database)

\* what a dispatch leaves behind: the JSONResponse it built or the response
\* of the next layer, the keys the authentication service was called with,
\* the number of calls of call_next, the attributes of request.state, and
\* the repository reads and the call of the next layer it awaited, in order
Dispatched(status_code, detail, authenticate_calls, call_next_calls, state, trace) ==
    [kind |-> "response", status_code |-> status_code, detail |-> detail,
     authenticate_calls |-> authenticate_calls, call_next_calls |-> call_next_calls,
     state |-> state, trace |-> trace]

\* response = await call_next(request): the next layer is called and the
\* handler runs, and the await ends when it hands back its response
CallNext(path) == << Lookup("call_next", path), Lookup("response", path) >>

\* the response of the next layer
HandlerDetail == "handled by the next layer"

\* AuthenticationMiddleware.dispatch
AuthenticationMiddleware_dispatch(api_key, method, url_path, state, database, now) ==
    IF api_key = NoString
    THEN Dispatched(401, "API key is missing", << >>, 0, state, << >>)
    ELSE LET authenticated == authenticate_api_key(api_key, database.api_keys_by_prefix,
                                                   now)
         IN  IF authenticated.kind = "raise"
             THEN Dispatched(authenticated.status_code, authenticated.detail,
                             << api_key >>, 0, state, authenticated.trace)
             ELSE LET api_key_info == authenticated.value
                      path == Strip(url_path)
                      path_params == MW_extract_path_parameters(path)
                      authorized == MW_authorize_request(method, path, api_key_info,
                                                         path_params, database)
                      awaited == authenticated.trace \o authorized.trace
                  IN  IF authorized.kind = "raise"
                      THEN Dispatched(authorized.status_code, authorized.detail,
                                      << api_key >>, 0, state, awaited)
                      ELSE Dispatched(200, HandlerDetail, << api_key >>, 1, state,
                                      awaited \o CallNext(path))

\* request.state as the layers before left it: without api_key_info, with
\* api_key_info None, or with a principal
StateWith(api_key_info) == [api_key_info |-> api_key_info]

\* the paths of the requests, as the URL has them
UrlPaths == {"/" \o path : path \in Paths} \cup {"/teams/T1/"}
HttpMethods == Methods \cup {"OPTIONS"}

\* AuthenticationMiddleware.dispatch on the database the call has seen
AuthenticationOutcome(call, seen) ==
    AuthenticationMiddleware_dispatch(call.api_key, call.method, call.url_path,
                                      EmptyDict, seen, call.now)

\* a request through AuthenticationMiddleware.dispatch, the first layer:
\* request.state has no api_key_info yet; the dispatch runs through its
\* first await
AuthenticationDispatch ==
    /\ Idle
    /\ \E api_key \in PresentedKeys, method \in HttpMethods, url_path \in UrlPaths,
          now \in {"2025-05-01T12:00:00Z"} :
          LET received ==
                [op |-> "authentication_dispatch", api_key |-> api_key,
                 method |-> method, url_path |-> url_path, now |-> now,
                 seen |-> db, awaited |-> 0]
          IN  Receive(received, AuthenticationOutcome(received, db))

\* the dispatch goes on from the await it is suspended at: a repository
\* read of authorize_request, or the call of the next layer
AuthenticationDispatchAwait ==
    /\ request # None
    /\ response = None
    /\ request.op = "authentication_dispatch"
    /\ \E seen \in {Reads(AuthenticationOutcome(request, request.seen))} :
          Resume(seen, AuthenticationOutcome(request, seen))

\* the calls other clients make while requests go through a middleware:
\* the deletion of a credential and of a user with its credentials
RevokeOps == {"delete_api_key", "delete_user"}

NextAuthentication ==
    \/ AuthenticationDispatch
    \/ AuthenticationDispatchAwait
    \/ OtherCall(RevokeOps)
    \/ OtherAwait
    \/ OtherReturn
    \/ Complete

\* the middleware authorizes the principal of the stored credential: K1 is
\* the credential of a user or of an admin
InitAuthentication ==
    /\ api_keys \in KeyWorldsOf(Roles)
    /\ users \in UserWorlds
    /\ images \in ImageWorlds
    /\ issued = << >>
    /\ revoked = {}
    /\ Idle
    /\ response = None
    /\ other = None

\* requests through the authentication middleware against the database
\* contents of the worlds
SpecAuthentication == InitAuthentication /\ [][NextAuthentication]_vars

\* a dispatch of the authentication middleware has answered
AuthenticationDispatched ==
    request # None /\ response # None /\ request.op = "authentication_dispatch"

\* what the authentication service answered to the request's key
RequestAuthentication ==
    authenticate_api_key(request.api_key, request.seen.api_keys_by_prefix, request.now)

\* C19: the authentication middleware answers 401 without calling the
\* authentication service or the next layer when the key is missing;
\* answers the failure's status without calling the next layer when
\* authentication fails; and when authentication succeeds stores the
\* principal in request.state.api_key_info and calls the next layer
\* exactly once
C19_AuthenticationMiddleware ==
    AuthenticationDispatched =>
        IF request.api_key = NoString
        THEN /\ response.status_code = 401
             /\ response.authenticate_calls = << >>
             /\ response.call_next_calls = 0
        ELSE IF RequestAuthentication.kind = "raise"
        THEN /\ response.status_code = RequestAuthentication.status_code
             /\ response.authenticate_calls = << request.api_key >>
             /\ response.call_next_calls = 0
        ELSE /\ response.state = StateWith(RequestAuthentication.value)
             /\ response.call_next_calls = 1

-----------------------------------------------------------------------------
(* AuthorizationMiddleware (middleware/authorization_middleware.py) *)

\* what a call of authorize_request comes to when its collaborators may be
\* unavailable: the first repository read the call makes then raises, and
\* the exception leaves authorize_request, which catches nothing
WithCollaborators(outcome, unavailable) ==
    LET reads == {i \in 1..Len(outcome.trace) :
                    outcome.trace[i].call \in {"get_user_by_id", "get_api_key_by_id",
                                               "get_image_by_id"}}
    IN  IF unavailable /\ reads # {}
        THEN Error(SubSeq(outcome.trace, 1, CHOOSE i \in reads : \A j \in reads : i <= j))
        ELSE outcome

\* authorize_request with collaborators that may be unavailable
AuthorizeWithCollaborators(method, path, api_key_info, path_params, database, unavailable) ==
    WithCollaborators(authorize_request(method, path, api_key_info, path_params, database),
                      unavailable)

\* an answer that treats an unexpected exception like a refusal, with 403
AnsweredAsForbidden(authorized, state, path) ==
    IF authorized.kind = "raise"
    THEN Dispatched(authorized.status_code, authorized.detail, << >>, 0, state,
                    authorized.trace)
    ELSE IF authorized.kind = "error"
    THEN Dispatched(403, "Access denied", << >>, 0, state, authorized.trace)
    ELSE Dispatched(200, HandlerDetail, << >>, 1, state, authorized.trace \o CallNext(path))

\* the answer of the dispatch to what authorize_request came to: the
\* HTTPException's status and detail, 500 for any other exception, else the
\* response of the next layer
Answered(authorized, state, path) ==
    IF authorized.kind = "raise"
    THEN Dispatched(authorized.status_code, authorized.detail, << >>, 0, state,
                    authorized.trace)
    ELSE IF authorized.kind = "error"
    THEN Dispatched(500, "Internal server error", << >>, 0, state, authorized.trace)
    ELSE Dispatched(200, HandlerDetail, << >>, 1, state, authorized.trace \o CallNext(path))

\* a dispatch that answers an unexpected exception like a refusal, with 403
DispatchErrorAsForbidden(method, url_path, state, database, unavailable) ==
    IF method = "OPTIONS"
    THEN Dispatched(200, HandlerDetail, << >>, 1, state, CallNext(url_path))
    ELSE IF "api_key_info" \notin DOMAIN state \/ state["api_key_info"] = None
    THEN Dispatched(500, "Internal server error", << >>, 0, state, << >>)
    ELSE AnsweredAsForbidden(
             AuthorizeWithCollaborators(method, Strip(url_path), state["api_key_info"],
                                        extract_path_parameters(Strip(url_path)),
                                        database, unavailable),
             state, Strip(url_path))

\* AuthorizationMiddleware.dispatch; reading request.state.api_key_info
\* when no layer has set it raises AttributeError, which the last handler
\* turns into 500 like any other exception
AuthorizationMiddleware_dispatch(method, url_path, state, database, unavailable) ==
    IF method = "OPTIONS"
    THEN Dispatched(200, HandlerDetail, << >>, 1, state, CallNext(url_path))
    ELSE IF "api_key_info" \notin DOMAIN state
    THEN Dispatched(500, "Internal server error", << >>, 0, state, << >>)
    ELSE IF state["api_key_info"] = None
    THEN Dispatched(500, "Internal server error", << >>, 0, state, << >>)
    ELSE Answered(
             AuthorizeWithCollaborators(method, Strip(url_path), state["api_key_info"],
                                        extract_path_parameters(Strip(url_path)),
                                        database, unavailable),
             state, Strip(url_path))

\* the principals the layer before may have left in request.state
DispatchPrincipals ==
    {root_key_data("2025-05-01T12:00:00Z")}
    \cup {APIKeyModel("api-key-123", "Test API Key", "sk_test_", "hashed_key_value",
                      "salt_value", role, "U1", "T1", "2025-05-01T12:00:00Z") :
            role \in Roles}
RequestStates ==
    {EmptyDict, StateWith(None)} \cup {StateWith(p) : p \in DispatchPrincipals}

\* AuthorizationMiddleware.dispatch on the database the call has seen
AuthorizationOutcome(call, seen) ==
    AuthorizationMiddleware_dispatch(call.method, call.url_path, call.state, seen,
                                     call.unavailable)

\* a request through AuthorizationMiddleware.dispatch, up to the end of
\* its first await
AuthorizationDispatch ==
    /\ Idle
    /\ \E method \in HttpMethods, url_path \in UrlPaths, state \in RequestStates,
          unavailable \in BOOLEAN :
          LET received ==
                [op |-> "authorization_dispatch", method |-> method,
                 url_path |-> url_path, state |-> state,
                 unavailable |-> unavailable, seen |-> db, awaited |-> 0]
          IN  Receive(received, AuthorizationOutcome(received, db))

\* the dispatch goes on from the await it is suspended at: a repository
\* read of authorize_request, or the call of the next layer
AuthorizationDispatchAwait ==
    /\ request # None
    /\ response = None
    /\ request.op = "authorization_dispatch"
    /\ \E seen \in {Reads(AuthorizationOutcome(request, request.seen))} :
          Resume(seen, AuthorizationOutcome(request, seen))

NextAuthorization ==
    \/ AuthorizationDispatch
    \/ AuthorizationDispatchAwait
    \/ OtherCall(RevokeOps)
    \/ OtherAwait
    \/ OtherReturn
    \/ Complete

\* requests through the authorization middleware against the database
\* contents of the worlds
SpecAuthorization == InitAuthz /\ [][NextAuthorization]_vars

\* a dispatch of the authorization middleware has answered
AuthorizationDispatched ==
    request # None /\ response # None /\ request.op = "authorization_dispatch"

\* request.state carries a principal
PrincipalPresent ==
    "api_key_info" \in DOMAIN request.state /\ request.state["api_key_info"] # None

\* what the authorization service did with the request, on the database
\* the dispatch has seen
RequestAuthorization ==
    AuthorizeWithCollaborators(request.method, Strip(request.url_path),
                               request.state["api_key_info"],
                               extract_path_parameters(Strip(request.url_path)),
                               request.seen, request.unavailable)

\* C20: the authorization middleware calls the next layer only for OPTIONS
\* or when authorize_request returned; without a principal in request.state
\* it answers 500, an HTTPException of the service becomes a response with
\* its status and detail, any other exception becomes 500 'Internal server
\* error', and in these three cases the next layer is not called
C20_AuthorizationMiddleware ==
    AuthorizationDispatched =>
        /\ response.call_next_calls \in {0, 1}
        /\ response.call_next_calls = 1 <=>
              \/ request.method = "OPTIONS"
              \/ PrincipalPresent /\ RequestAuthorization.kind = "return"
        /\ (request.method # "OPTIONS" /\ ~ PrincipalPresent)
              => response.status_code = 500
        /\ (request.method # "OPTIONS" /\ PrincipalPresent)
              => /\ RequestAuthorization.kind = "raise"
                    => /\ response.status_code = RequestAuthorization.status_code
                       /\ response.detail = RequestAuthorization.detail
                 /\ RequestAuthorization.kind = "error"
                    => /\ response.status_code = 500
                       /\ response.detail = "Internal server error"

\* C20 witness: an admin's request needed a collaborator lookup while the
\* collaborators were unavailable, and was answered 500 without reaching
\* the next layer
C20_Witness ==
    /\ AuthorizationDispatched
    /\ PrincipalPresent
    /\ request.state["api_key_info"].role = "admin"
    /\ request.method = "GET"
    /\ request.url_path = "/teams/T1/users/U1"
    /\ request.unavailable
    /\ response.status_code = 500
    /\ response.detail = "Internal server error"
    /\ response.call_next_calls = 0

-----------------------------------------------------------------------------
(* Authentication and authorization calls against one database *)

\* requests that name a user, a credential or an image of team T1
ResourcePaths ==
    {"teams/T1/users/U2", "teams/T1/api-keys/K1", "teams/T1/images/I1",
     "teams/T1/users/U2/api-keys/K1", "teams/T1/users/U2/images/I1"}
ResourceMethods == {"GET", "DELETE"}

\* a call of authorize_request for a request that names a resource, through
\* its first repository read
AuthorizeResourceRequest ==
    /\ Idle
    /\ \E method \in ResourceMethods, path \in ResourcePaths, api_key_info \in Principals :
          LET received ==
                [op |-> "authorize_request", method |-> method, path |-> path,
                 api_key_info |-> api_key_info,
                 path_params |-> extract_path_parameters(path),
                 seen |-> db, awaited |-> 0]
          IN  Receive(received, AuthorizeOutcome(received, db))

\* every call that writes to the user, credential or image collection
StoreOps ==
    {"create_api_key", "delete_api_key", "create_user", "delete_user", "upload_team_image",
     "delete_image", "delete_team_image", "delete_team"}

NextAccess ==
    \/ AuthenticateApiKey
    \/ AuthorizeResourceRequest
    \/ AuthorizeRequestAwait
    \/ OtherCall(StoreOps)
    \/ OtherAwait
    \/ OtherReturn
    \/ Complete

\* both engines called, in any order, against the database contents of the
\* worlds, among the calls of other clients that write to them
SpecAccess == InitAuthz /\ [][NextAccess]_vars

\* C21: a step of a call of authenticate_api_key or authorize_request,
\* whatever its outcome, leaves the credential, user and image stores and
\* the record of issued and removed credentials as they were
C21_EnginesReadOnly ==
    [][ ( /\ request' # None
          /\ request' # request
          /\ request'.op \in {"authenticate_api_key", "authorize_request"} )
            => ( /\ api_keys' = api_keys
                 /\ users' = users
                 /\ images' = images
                 /\ issued' = issued
                 /\ revoked' = revoked ) ]_vars

\* C21 witness: the secret of the stored credential K1 authenticated, the
\* store being read by the call
C21_Witness ==
    /\ Authenticated
    /\ response.kind = "return"
    /\ response.value.id = "K1"
    /\ response.trace # << >>
    /\ Len(api_keys) = 1


-----------------------------------------------------------------------------
(* The order of the gates, checked under SpecAuthz *)

ApiKeyNotFoundDetail == "API key not found"
ImageNotFoundDetail == "Image not found"
NotOwnUserDetail == "Access denied: You can only access your own information"
NotOwnApiKeyDetail == "Access denied: You can only access your own API keys"
ApiKeyOutsideTeamDetail == "Access denied: API key does not belong to your team"
ImageOutsideTeamDetail == "Access denied: Image does not belong to your team"

\* the six gates in their order, and the gate a recorded call belongs to
GateNumbers == 1..6
GateOfCall(call) ==
    CASE call = "_find_matching_pattern" -> 1
      [] call = "get_user_by_id" -> 4
      [] call = "get_api_key_by_id" -> 5
      [] call = "get_image_by_id" -> 6
      [] OTHER -> 0

\* the credential the request names, as stored
RequestApiKey == get_api_key_by_id(request.seen.api_keys, request.path_params["api_key_id"])

\* what each gate, taken alone, says of the request: << >> when it passes,
\* otherwise the status and reason of its refusal
GateVerdict(gate) ==
    LET principal == request.api_key_info
        params == request.path_params
    IN  CASE gate = 1 ->
               IF Candidates(request.method, request.path) = {}
               THEN << 403, NoRuleDetail >> ELSE << >>
          [] gate = 2 ->
               LET rule == RequestRule
               IN  IF /\ rule # NoString
                      /\ ~ Satisfies(principal.role, RuleRole(request.method, rule))
                   THEN << 403, InsufficientDetail >> ELSE << >>
          [] gate = 3 ->
               IF "team_id" \in DOMAIN params /\ params["team_id"] # principal.team_id
               THEN << 403, CrossTeamDetail >> ELSE << >>
          [] gate = 4 ->
               IF "user_id" \notin DOMAIN params THEN << >>
               ELSE IF principal.role = "user"
               THEN IF params["user_id"] # principal.user_id
                    THEN << 403, NotOwnUserDetail >> ELSE << >>
               ELSE IF principal.role = "admin"
               THEN IF RequestUser = None \/ RequestUser.team_id # principal.team_id
                    THEN << 403, UserOutsideTeamDetail >> ELSE << >>
               ELSE << >>
          [] gate = 5 ->
               IF "api_key_id" \notin DOMAIN params THEN << >>
               ELSE IF RequestApiKey = None THEN << 404, ApiKeyNotFoundDetail >>
               ELSE IF principal.role = "user" /\ RequestApiKey.user_id # principal.user_id
               THEN << 403, NotOwnApiKeyDetail >>
               ELSE IF principal.role = "admin" /\ RequestApiKey.team_id # principal.team_id
               THEN << 403, ApiKeyOutsideTeamDetail >>
               ELSE << >>
          [] gate = 6 ->
               IF "image_id" \notin DOMAIN params THEN << >>
               ELSE IF RequestImage = None THEN << 404, ImageNotFoundDetail >>
               ELSE IF RequestImage.team_id # principal.team_id
               THEN << 403, ImageOutsideTeamDetail >>
               ELSE IF /\ request.method = "DELETE"
                       /\ principal.role = "user"
                       /\ RequestImage.user_id # principal.user_id
               THEN << 403, NotOwnImageDetail >>
               ELSE << >>

\* the verdicts of the six gates, the gates that refuse, and the first of them
GateVerdicts == [gate \in GateNumbers |-> GateVerdict(gate)]
Failing(verdicts) == {gate \in GateNumbers : verdicts[gate] # << >>}
First(gates) == CHOOSE gate \in gates : \A later \in gates : gate <= later
FailingGates == Failing(GateVerdicts)

\* C22: for a non-root request the outcome is that of the first gate, in
\* the order rule, role, team, user, API key, image, that refuses it, and
\* the request is allowed when none does; the calls are recorded in gate
\* order and none belongs to a gate after the first refusing one
C22_FirstFailingGateWins ==
    (Authorized /\ request.api_key_info.role # "root") =>
        LET verdicts == GateVerdicts
            failing == Failing(verdicts)
            gates == [i \in 1..Len(response.trace) |-> GateOfCall(response.trace[i].call)]
        IN  /\ \A i \in DOMAIN gates : gates[i] \in GateNumbers
            /\ \A i, j \in DOMAIN gates : i < j => gates[i] < gates[j]
            /\ IF failing = {} THEN Allowed
               ELSE LET first == First(failing)
                    IN  /\ Denied(verdicts[first][1], verdicts[first][2])
                        /\ \A i \in DOMAIN gates : gates[i] <= first

\* C22 witness: an admin named, on a path of the admin's team, a user and
\* an image of another team; both the user gate and the image gate refuse,
\* the user gate's refusal was reported and the image was not fetched
C22_Witness ==
    /\ Authorized
    /\ request.api_key_info.role = "admin"
    /\ FailingGates = {4, 6}
    /\ "api_key_id" \notin DOMAIN request.path_params
    /\ Denied(403, UserOutsideTeamDetail)
    /\ Len(response.trace) = 2
    /\ response.trace[2].call = "get_user_by_id"


-----------------------------------------------------------------------------
(* Scoping of images, API keys and users, checked under SpecAuthz *)

\* a non-root request whose path parameters carry an image_id
NamesImage ==
    /\ Authorized
    /\ request.api_key_info.role # "root"
    /\ "image_id" \in DOMAIN request.path_params

\* the call fetched the image the request names
ImageFetched ==
    \E i \in 1..Len(response.trace) :
        response.trace[i] = Lookup("get_image_by_id", request.path_params["image_id"])

\* the claim as first stated: whenever the request is not one naming a
\* stored image of the principal's team, the refusal is the image-outside-
\* team one
C23_Original ==
    NamesImage =>
        IF RequestImage # None /\ RequestImage.team_id = request.api_key_info.team_id
        THEN TRUE
        ELSE Denied(403, ImageOutsideTeamDetail)

\* C23: a non-root request that names an image is allowed only when the
\* stored image's team is the principal's team, whatever the method; when
\* the call gets as far as fetching the image and the image is stored under
\* another team, it is refused with 403 'Image does not belong to your
\* team'; a refusal of an earlier gate, or 404 for an image that is not
\* stored, comes first
C23_ImageTeamScoping ==
    NamesImage =>
        /\ Allowed =>
              /\ ImageFetched
              /\ RequestImage # None
              /\ RequestImage.team_id = request.api_key_info.team_id
        /\ (/\ ImageFetched
            /\ RequestImage # None
            /\ RequestImage.team_id # request.api_key_info.team_id)
              => Denied(403, ImageOutsideTeamDetail)
        /\ (ImageFetched /\ RequestImage = None) => Denied(404, ImageNotFoundDetail)

\* C23 witness: an admin of T1 asked to PUT, on a path of T1, an image that
\* is stored under T2; the image was fetched and the request refused
C23_Witness ==
    /\ NamesImage
    /\ request.method = "PUT"
    /\ request.path = "teams/T1/images/I1"
    /\ request.api_key_info.role = "admin"
    /\ request.api_key_info.team_id = "T1"
    /\ ImageFetched
    /\ RequestImage # None
    /\ RequestImage.team_id = "T2"
    /\ Denied(403, ImageOutsideTeamDetail)


\* a request of a user-role or admin-role principal whose path parameters
\* carry an api_key_id
NamesApiKey ==
    /\ Authorized
    /\ request.api_key_info.role \in {"user", "admin"}
    /\ "api_key_id" \in DOMAIN request.path_params

\* the stored credential the request names is not the principal's to reach:
\* another user's for a user-role principal, another team's for an admin
ApiKeyMismatch ==
    /\ RequestApiKey # None
    /\ \/ /\ request.api_key_info.role = "user"
          /\ RequestApiKey.user_id # request.api_key_info.user_id
       \/ /\ request.api_key_info.role = "admin"
          /\ RequestApiKey.team_id # request.api_key_info.team_id

ApiKeyFetched ==
    \E i \in 1..Len(response.trace) :
        response.trace[i] = Lookup("get_api_key_by_id", request.path_params["api_key_id"])

\* C24: a request that names an API key is allowed for a user-role
\* principal only when the stored credential's user_id is the principal's,
\* and for an admin-role principal only when the stored credential's
\* team_id is the principal's; a mismatch is refused with 403
C24_ApiKeyScoping ==
    NamesApiKey =>
        /\ Allowed => (ApiKeyFetched /\ RequestApiKey # None /\ ~ ApiKeyMismatch)
        /\ ApiKeyMismatch => (response.kind = "raise" /\ response.status_code = 403)
        /\ (ApiKeyMismatch /\ ApiKeyFetched) =>
              IF request.api_key_info.role = "user"
              THEN Denied(403, NotOwnApiKeyDetail)
              ELSE Denied(403, ApiKeyOutsideTeamDetail)

\* C24 witness: a user asked, on the user's own path, for a credential that
\* is stored under another user of the same team; the credential was
\* fetched and the request refused as not the user's own
C24_Witness ==
    /\ NamesApiKey
    /\ request.api_key_info.role = "user"
    /\ request.method = "GET"
    /\ request.path = "teams/T1/users/U1/api-keys/K1"
    /\ request.api_key_info.user_id = "U1"
    /\ request.api_key_info.team_id = "T1"
    /\ ApiKeyFetched
    /\ RequestApiKey # None
    /\ RequestApiKey.user_id = "U2"
    /\ RequestApiKey.team_id = "T1"
    /\ Denied(403, NotOwnApiKeyDetail)


\* a user-role principal names, in the path, a user other than itself
UserNamesOtherUser ==
    /\ Authorized
    /\ request.api_key_info.role = "user"
    /\ "user_id" \in DOMAIN request.path_params
    /\ request.path_params["user_id"] # request.api_key_info.user_id

\* the team the path names, if it names one, is the principal's
TeamGatePassed ==
    "team_id" \in DOMAIN request.path_params
        => request.path_params["team_id"] = request.api_key_info.team_id

\* the claim as first stated: the reason is always the not-own-user one
C25_Original ==
    UserNamesOtherUser => (Denied(403, NotOwnUserDetail) /\ OwnershipLookups = {})

\* C25: a user-role principal that names another user is refused with 403
\* and no collaborator lookup is made; the reason is 'You can only access
\* your own information' when the rule, role and team gates pass, and the
\* reason of the first of these gates that refuses otherwise
C25_UserNamesOnlyItself ==
    UserNamesOtherUser =>
        /\ response.kind = "raise"
        /\ response.status_code = 403
        /\ OwnershipLookups = {}
        /\ Denied(403, NotOwnUserDetail) <=> (RoleGatePassed /\ TeamGatePassed)

\* C25 witness: user U1 of T1 asked for the image of user U2 on a path of
\* T1, with the image stored; the refusal was the not-own-user one and
\* neither a user nor an image was fetched
C25_Witness ==
    /\ UserNamesOtherUser
    /\ request.method = "GET"
    /\ request.path = "teams/T1/users/U2/images/I1"
    /\ request.api_key_info.user_id = "U1"
    /\ request.api_key_info.team_id = "T1"
    /\ request.seen.images # {}
    /\ Denied(403, NotOwnUserDetail)
    /\ OwnershipLookups = {}


-----------------------------------------------------------------------------
(* Rule resolution and path parameters on paths of any shape *)

\* paths whose identifier segments are themselves resource-type names
ReservedWordPaths ==
    { "teams/teams", "teams/images", "teams/teams/users/U1", "teams/users/images/I1",
      "teams/api-keys/api-keys/K1", "teams/T1/users/teams", "teams/T1/users/users",
      "teams/T1/images/images", "teams/T1/users/U1/images/images",
      "teams/T1/users/users/images/I1", "teams/T1/users/teams/images/I1",
      "teams/T1/users/api-keys/api-keys/K1" }
RulePaths == Paths \cup ReservedWordPaths

\* AuthorizationMiddleware.dispatch up to the rule resolution: the path
\* parameters are extracted from the path and the rule is looked up
FindMatchingPattern ==
    /\ Idle
    /\ \E method \in Methods, path \in RulePaths :
          /\ request' = [op |-> "_find_matching_pattern", method |-> method, path |-> path,
                         path_params |-> extract_path_parameters(path)]
          /\ response' = Return(_find_matching_pattern(method, path), << >>)
    /\ UNCHANGED << api_keys, users, images, issued, revoked, other >>

NextRules ==
    \/ FindMatchingPattern
    \/ Complete

SpecRules == Init /\ [][NextRules]_vars

\* a rule resolution has been made and has its result
Resolved == request # None /\ request.op = "_find_matching_pattern"

\* two patterns some concrete path qualifies for both: as many segments,
\* and no position where both have a literal and the literals differ
Compatible(p, q) ==
    LET ps == Split(p)
        qs == Split(q)
    IN  /\ Len(ps) = Len(qs)
        /\ \A i \in 1..Len(ps) :
              IsPlaceholder(ps[i]) \/ IsPlaceholder(qs[i]) \/ ps[i] = qs[i]

\* the qualifying patterns no qualifying pattern has more literal segments than
MostSpecific(method, path) ==
    LET candidates == Candidates(method, path)
    IN  {p \in candidates :
            \A q \in candidates :
                Cardinality(LiteralPositions(p)) >= Cardinality(LiteralPositions(q))}

\* C26: no two patterns of a method that a same path can qualify for have
\* the same number of literal segments, so for every method and path at
\* most one qualifying pattern has the greatest number of literal segments,
\* and the matcher returns that one whatever the order of the table
C26_UniqueMostSpecific ==
    /\ \A method \in DOMAIN PERMISSION_RULES :
          \A p, q \in MethodPatterns(method) :
              (p # q /\ Compatible(p, q))
                  => Cardinality(LiteralPositions(p)) # Cardinality(LiteralPositions(q))
    /\ Resolved =>
          LET most == MostSpecific(request.method, request.path)
          IN  /\ Cardinality(most) <= 1
              /\ IF response.value = NoString THEN most = {}
                 ELSE most = {response.value}

\* C26 witness: the GET of a user's image, on a path whose user segment is
\* the word users, resolved to the six-segment rule, the only qualifying one
C26_Witness ==
    /\ Resolved
    /\ request.method = "GET"
    /\ request.path = "teams/T1/users/users/images/I1"
    /\ response.value = "teams/{team_id}/users/{user_id}/images/{image_id}"
    /\ MostSpecific("GET", request.path) = {response.value}


\* the name a placeholder segment carries: {team_id} carries team_id
PlaceholderName(part) == SubSeq(part, 2, Len(part) - 1)

\* C27: for a path that matches a rule pattern, the extracted parameters
\* are exactly the placeholders of the matched pattern, each with the path
\* segment standing at the placeholder's position, also when an identifier
\* segment is one of the words teams, users, images, api-keys
C27_ExtractionFollowsPlaceholders ==
    (Resolved /\ response.value # NoString) =>
        LET pattern_parts == Split(response.value)
            path_parts == Split(request.path)
            placeholders == {i \in 1..Len(pattern_parts) : IsPlaceholder(pattern_parts[i])}
        IN  /\ \A i \in placeholders :
                  /\ PlaceholderName(pattern_parts[i]) \in DOMAIN request.path_params
                  /\ request.path_params[PlaceholderName(pattern_parts[i])] = path_parts[i]
            /\ \A name \in DOMAIN request.path_params :
                  \E i \in placeholders : PlaceholderName(pattern_parts[i]) = name


-----------------------------------------------------------------------------
(* Credentials and the users they name, checked under SpecUsers *)

\* C29: every stored credential names a stored user, and carries that
\* user's team_id, so a principal authenticated from a stored credential
\* has the team its user belongs to
C29_CredentialsNameTheirUsers ==
    /\ \A i \in 1..Len(api_keys) :
          LET user == get_user_by_id(users, api_keys[i].user_id)
          IN  user # None /\ user.team_id = api_keys[i].team_id
    /\ (Authenticated /\ response.kind = "return" /\ response.value.role # "root") =>
          LET user == get_user_by_id(users, response.value.user_id)
          IN  user # None /\ user.team_id = response.value.team_id


-----------------------------------------------------------------------------
(* Tenant isolation, checked under SpecAuthz *)

\* C28: whenever a request of a non-root principal is allowed, the team
\* the path names is the principal's team, and the user, the credential
\* and the image the path names, as stored, are of the principal's team
C28_TenantIsolation ==
    (Authorized /\ request.api_key_info.role # "root" /\ Allowed) =>
        LET params == request.path_params
            team_id == request.api_key_info.team_id
        IN  /\ "team_id" \in DOMAIN params => params["team_id"] = team_id
            /\ "user_id" \in DOMAIN params =>
                  (RequestUser # None => RequestUser.team_id = team_id)
            /\ "api_key_id" \in DOMAIN params =>
                  (RequestApiKey # None /\ RequestApiKey.team_id = team_id)
            /\ "image_id" \in DOMAIN params =>
                  (RequestImage # None /\ RequestImage.team_id = team_id)


-----------------------------------------------------------------------------
(* A dispatch interleaved with the deletion of its credential *)

\* the requests of the interleaved runs
InterleavedKeys == {NoString, ROOT_API_KEY, "sk_AbCdEfGh12345", "sk_NoSuchKey00000"}
InterleavedMethods == {"GET", "DELETE"}
InterleavedUrlPaths == {"/teams/T1", "/teams/T2", "/teams/T1/users/U1", "/teams/T1/images/I1"}

\* a request through AuthenticationMiddleware.dispatch, up to the end of
\* its first await
InterleavedDispatch ==
    /\ Idle
    /\ \E api_key \in InterleavedKeys, method \in InterleavedMethods,
          url_path \in InterleavedUrlPaths, now \in {"2025-05-01T12:00:00Z"} :
          LET received ==
                [op |-> "authentication_dispatch", api_key |-> api_key,
                 method |-> method, url_path |-> url_path, now |-> now,
                 seen |-> db, awaited |-> 0]
          IN  Receive(received, AuthenticationOutcome(received, db))

\* the calls of delete_api_key other clients make meanwhile
NextInterleaved ==
    \/ InterleavedDispatch
    \/ AuthenticationDispatchAwait
    \/ OtherCall({"delete_api_key"})
    \/ OtherAwait
    \/ OtherReturn
    \/ Complete

SpecInterleaved == InitAuthentication /\ [][NextInterleaved]_vars

\* the dispatch has called the next layer: the handler has been invoked
HandlerInvoked(dispatch) ==
    /\ dispatch # None
    /\ dispatch.op = "authentication_dispatch"
    /\ dispatch.awaited > 0
    /\ LET awaits == Awaits(AuthenticationOutcome(dispatch, dispatch.seen).trace)
       IN  \E i \in 1..Min(dispatch.awaited, Len(awaits)) : awaits[i].call = "call_next"

\* the principal the dispatch authenticated
DispatchPrincipal(dispatch) ==
    authenticate_api_key(dispatch.api_key, dispatch.seen.api_keys_by_prefix,
                         dispatch.now).value

\* a call of delete_api_key for the credential has removed it and returned
DeleteCompleted(api_key_id, removed, deleting) ==
    /\ api_key_id \in removed
    /\ ~ (deleting # None /\ deleting.call.api_key_id = api_key_id)

\* C30: the handler is never invoked for the principal of a credential
\* whose delete_api_key call has completed: no dispatch calls the next
\* layer for a principal whose credential a completed delete_api_key call
\* has removed
C30_NoHandlerAfterDelete ==
    [][ (~ HandlerInvoked(request) /\ HandlerInvoked(request'))
            => ~ DeleteCompleted(DispatchPrincipal(request').id, revoked', other') ]_vars

====
